---- MODULE Spec2Model ----
(***************************************************************************)
(* Model of the Robin-Hood hash multimap of Modules/hmap (hmap.c) as it is *)
(* driven by its unit tests (utest/main.c), and of the flow table of        *)
(* OFStateManager (ft.c): a pool of flow entries with a free list, an      *)
(* all-entries list and three indexes.                                     *)
(*                                                                         *)
(* A 32-bit unsigned value v is written <<b, l>> with b = v >> 31 (the     *)
(* HMAP_HASH_DELETED_BIT position) and l = v & 0x7fffffff, so that every   *)
(* uint32_t, 0x80000000 and above included, is represented exactly.        *)
(***************************************************************************)
EXTENDS Integers, Sequences, FiniteSets, TLC

\* ------------------------------------------------------------------ bounds
\* objects of the insert/remove runs (Spec): objects 1..NumObjs
NumObjs == 4
\* objects of the lookup iteration runs (SpecIter): objects 1..NumIter
NumIter == 3
\* tombstones a caller of Spec or SpecIter lets accumulate before it stops
\* removing
MaxTombstones == 2
\* objects of the fill runs (SpecFill): objects 1..NumFill
NumFill == 9
\* objects of the load runs (SpecLoad)
NumLoad == 8
\* tombstones a caller of SpecLoad lets accumulate
MaxLoadTombstones == 1
\* flow table runs (SpecFT): config.max_entries of the table
MaxEntries == 2
\* the flow ids the caller uses are 1..NumFlowIds
NumFlowIds == 2
\* successful and table-full adds after which the caller stops adding
MaxAdds == 2

\* ------------------------------------------------------- program constants
HMAP_INITIAL_SIZE == 8
\* HMAP_DEFAULT_LOAD_FACTOR 0.8, as the fraction 4/5
HMAP_DEFAULT_LOAD_FACTOR == <<4, 5>>
\* the null pointer
NULL == 0

\* uint32_t values as <<bit 31, low 31 bits>>
U32(b, l) == <<b, l>>

\* hmap_int.h: #define HMAP_HASH_FREE 0
HMAP_HASH_FREE == U32(0, 0)

\* hash & HMAP_HASH_DELETED_BIT (hmap_int.h: 0x80000000) as a truth value
HasDeletedBit(hash) == hash[1] = 1

\* hash | HMAP_HASH_DELETED_BIT
SetDeletedBit(hash) == U32(1, hash[2])

\* hash & ~HMAP_HASH_DELETED_BIT
ClearDeletedBit(hash) == U32(0, hash[2])

\* The keys the caller gives its objects (make_obj(key) of the unit tests),
\* one family of objects per run.
\* test_robin_hood_deleted, test_collisions and test_robin_hood: 9 and 17
\* share bucket 1 of an 8-slot table with 1, and 2 is the next bucket
RobinHoodKeys == << U32(0, 1), U32(0, 9), U32(0, 17), U32(0, 2), U32(0, 1) >>

\* test_multi: three objects with the key 1, and a key of bucket 3
MultiKeys == << U32(0, 1), U32(0, 1), U32(0, 1), U32(0, 3), U32(1, 0) >>

\* test_fill: sequential keys, after keys whose raw hashes 0x80000000 and 0
\* are the special values of a hash cell (both are stored as 1) and the
\* colliding keys of test_collisions
FillKeyTable ==
  << U32(0, 1), U32(0, 9), U32(0, 1), U32(0, 2), U32(1, 0), U32(0, 0),
     U32(0, 3), U32(0, 4), U32(0, 5), U32(0, 6), U32(0, 7), U32(0, 8),
     U32(0, 10), U32(0, 11) >>

KeyTables == {RobinHoodKeys, MultiKeys}

Objs == 1..NumObjs

IterObjs == 1..NumIter

FillObjs == 1..NumFill

\* the objects of the load runs: the NumLoad objects after those of Spec
LoadObjs == (NumObjs + 1)..(NumObjs + NumLoad)

\* a key that no object has
AbsentKey == U32(0, 25)

\* the max_load_factor arguments of hmap_create, as fractions: 0.875 is
\* the one of the unit tests and 0.375 makes a table of few objects grow
LoadFactors == {<<7, 8>>, <<3, 8>>}

\* those of the fill and load runs: 0 selects the default
FillLoadFactors == {<<0, 1>>, <<7, 8>>}

\* utest/main.c hash_uint32: the trivial hash
hash_uint32(key) == key

\* hmap_uint32_equality
hmap_uint32_equality(key1, key2) == key1 = key2

VARIABLES
  okeys,     \* okeys[o] is the key of object o (struct obj.key), fixed when
             \* the object is made
  hmap,      \* struct hmap: size, count, threshold, max_load_factor,
             \* hashes[], objects[]
  members,   \* the objects the caller has inserted and not removed
  aborted,   \* an assert(0) of hmap.c has tripped
  lkey,      \* the key of the lookup iteration in progress
  state,     \* the caller's uint32_t state cursor of hmap_lookup
  results,   \* what the lookup calls in progress have returned (empty
             \* when no lookup is in progress)
  slots,     \* history of each slot of the current arrays: "never" written
             \* since the arrays were allocated, "live" (last written by
             \* hmap_insert__) or "removed" (last written by hmap_remove)
  ft,        \* struct ft_public_s: config, status, flow_entries[], free_list,
             \* all_list, flow_id_index, priority_index, match_index
  iter,      \* struct ft_iter_task_state of the spawned task: idx, use_query,
             \* query; whether the task is registered and what its last
             \* tick returned
  calls,     \* the entries the callback of the task was invoked with, in
             \* order, each with the flow id it had then; NULL for the null
             \* entry
  walk       \* history of the walk: the entries live and passing since the
             \* spawn, those added ahead of and behind idx, and those deleted
             \* or marked ahead of idx

vars ==
  <<okeys, hmap, members, aborted, lkey, state, results, slots, ft, iter,
    calls, walk>>

\* the variables of the hash map runs and those of the flow table runs
hmapvars == <<okeys, hmap, members, aborted, lkey, state, results, slots>>

itervars == <<iter, calls, walk>>

ftvars == <<ft, iter, calls, walk>>

\* struct obj.key, read through key_offset by hmap_object_key
hmap_object_key(object) == okeys[object]

\* the keys that are looked up: those of the objects and one that no
\* object has
Keys == {hmap_object_key(o) : o \in Objs} \cup {AbsentKey}

IterKeys == {hmap_object_key(o) : o \in IterObjs} \cup {AbsentKey}

FillKeys == {hmap_object_key(o) : o \in FillObjs} \cup {AbsentKey}

\* hmap->threshold = hmap->size * hmap->max_load_factor (a uint32_t field:
\* the product is truncated)
Threshold(size, lf) == (size * lf[1]) \div lf[2]

hmap_create(max_load_factor) ==
  LET lf == IF max_load_factor[1] = 0 THEN HMAP_DEFAULT_LOAD_FACTOR
            ELSE max_load_factor
  IN [ max_load_factor |-> lf,
       count |-> 0,
       size |-> HMAP_INITIAL_SIZE,
       threshold |-> Threshold(HMAP_INITIAL_SIZE, lf),
       hashes |-> [i \in 0..(HMAP_INITIAL_SIZE - 1) |-> HMAP_HASH_FREE],
       objects |-> [i \in 0..(HMAP_INITIAL_SIZE - 1) |-> NULL] ]

hmap_count(h) == h.count

\* (hash + distance) & (size - 1); size divides 2^31, so only the low bits
\* of hash count
hmap_index(h, hash, distance) == ((hash[2] % h.size) + distance) % h.size

hmap_distance(h, idx, hash) ==
  (idx + h.size - hmap_index(h, hash, 0)) % h.size

\* hmap_calc_hash that tests for FREE before it clears the tombstone bit
hmap_calc_hash_free_first(key) ==
  LET raw == hash_uint32(key)
  IN IF raw = HMAP_HASH_FREE THEN U32(0, 1) ELSE ClearDeletedBit(raw)

\* hmap_calc_hash that leaves the tombstone bit of the raw hash in place
hmap_calc_hash_keep_bit(key) ==
  LET raw == hash_uint32(key)
  IN IF raw = HMAP_HASH_FREE THEN U32(0, 1) ELSE raw

hmap_calc_hash(key) ==
  LET raw == hash_uint32(key)
      cleared == ClearDeletedBit(raw)
  IN IF cleared = HMAP_HASH_FREE THEN U32(0, 1) ELSE cleared

\* a lookup whose early exit also takes an occupant of equal probe distance
RECURSIVE LookupLoopLe(_, _, _, _)
LookupLoopLe(h, key, hash, distance) ==
  IF distance >= h.size THEN [object |-> NULL, state |-> -1]
  ELSE
    LET idx == hmap_index(h, hash, distance)
        bucket_hash == h.hashes[idx]
    IN IF bucket_hash = hash
       THEN IF hmap_uint32_equality(key, hmap_object_key(h.objects[idx]))
            THEN [object |-> h.objects[idx], state |-> distance + 1]
            ELSE LookupLoopLe(h, key, hash, distance + 1)
       ELSE IF \/ bucket_hash = HMAP_HASH_FREE
               \/ hmap_distance(h, idx, bucket_hash) <= distance
            THEN [object |-> NULL, state |-> -1]
            ELSE LookupLoopLe(h, key, hash, distance + 1)

\* a lookup that stops at a tombstone as it does at a free slot
RECURSIVE LookupLoopTomb(_, _, _, _)
LookupLoopTomb(h, key, hash, distance) ==
  IF distance >= h.size THEN [object |-> NULL, state |-> -1]
  ELSE
    LET idx == hmap_index(h, hash, distance)
        bucket_hash == h.hashes[idx]
    IN IF bucket_hash = hash
       THEN IF hmap_uint32_equality(key, hmap_object_key(h.objects[idx]))
            THEN [object |-> h.objects[idx], state |-> distance + 1]
            ELSE LookupLoopTomb(h, key, hash, distance + 1)
       ELSE IF \/ bucket_hash = HMAP_HASH_FREE
               \/ HasDeletedBit(bucket_hash)
               \/ hmap_distance(h, idx, bucket_hash) < distance
            THEN [object |-> NULL, state |-> -1]
            ELSE LookupLoopTomb(h, key, hash, distance + 1)

\* The probe loop of hmap_lookup seen from its exit: why it was left and
\* the value of distance at that moment.  LookupExitSkipTombstones is the
\* loop with a break test that passes over every tombstone.
RECURSIVE LookupExitSkipTombstones(_, _, _, _)
LookupExitSkipTombstones(h, key, hash, distance) ==
  IF distance >= h.size THEN [exit |-> "end", distance |-> distance]
  ELSE
    LET idx == hmap_index(h, hash, distance)
        bucket_hash == h.hashes[idx]
    IN IF bucket_hash = hash
       THEN IF hmap_uint32_equality(key, hmap_object_key(h.objects[idx]))
            THEN [exit |-> "return", distance |-> distance]
            ELSE LookupExitSkipTombstones(h, key, hash, distance + 1)
       ELSE IF \/ bucket_hash = HMAP_HASH_FREE
               \/ /\ ~HasDeletedBit(bucket_hash)
                  /\ hmap_distance(h, idx, bucket_hash) < distance
            THEN [exit |-> "break", distance |-> distance]
            ELSE LookupExitSkipTombstones(h, key, hash, distance + 1)

RECURSIVE LookupExit(_, _, _, _)
LookupExit(h, key, hash, distance) ==
  IF distance >= h.size THEN [exit |-> "end", distance |-> distance]
  ELSE
    LET idx == hmap_index(h, hash, distance)
        bucket_hash == h.hashes[idx]
    IN IF bucket_hash = hash
       THEN IF hmap_uint32_equality(key, hmap_object_key(h.objects[idx]))
            THEN [exit |-> "return", distance |-> distance]
            ELSE LookupExit(h, key, hash, distance + 1)
       ELSE IF \/ bucket_hash = HMAP_HASH_FREE
               \/ hmap_distance(h, idx, bucket_hash) < distance
            THEN [exit |-> "break", distance |-> distance]
            ELSE LookupExit(h, key, hash, distance + 1)

\* hmap_lookup: state is NULL-able; the result is the returned object and
\* the value left in *state.  st = -1 stands for state == NULL.
RECURSIVE LookupLoop(_, _, _, _)
LookupLoop(h, key, hash, distance) ==
  IF distance >= h.size THEN [object |-> NULL, state |-> -1]
  ELSE
    LET idx == hmap_index(h, hash, distance)
        bucket_hash == h.hashes[idx]
    IN IF bucket_hash = hash
       THEN IF hmap_uint32_equality(key, hmap_object_key(h.objects[idx]))
            THEN [object |-> h.objects[idx], state |-> distance + 1]
            ELSE LookupLoop(h, key, hash, distance + 1)
       ELSE IF \/ bucket_hash = HMAP_HASH_FREE
               \/ hmap_distance(h, idx, bucket_hash) < distance
            THEN [object |-> NULL, state |-> -1]
            ELSE LookupLoop(h, key, hash, distance + 1)

hmap_lookup(h, key, st) ==
  LET r == LookupLoop(h, key, hmap_calc_hash(key), IF st = -1 THEN 0 ELSE st)
  IN [object |-> r.object,
      state |-> IF st = -1 \/ r.object = NULL THEN st ELSE r.state]

\* a placement loop that displaces an occupant of equal probe distance too
RECURSIVE InsertLoopTieDisplaces(_, _, _, _)
InsertLoopTieDisplaces(h, object, hash, distance) ==
  IF distance >= h.size THEN [hmap |-> h, ok |-> FALSE]
  ELSE
    LET idx == hmap_index(h, hash, distance)
        bucket_hash == h.hashes[idx]
        bucket_distance == hmap_distance(h, idx, bucket_hash)
        should_steal == distance >= bucket_distance
        placed == [h EXCEPT !.hashes[idx] = hash, !.objects[idx] = object]
    IN IF \/ bucket_hash = HMAP_HASH_FREE
          \/ (HasDeletedBit(bucket_hash) /\ should_steal)
       THEN [hmap |-> [placed EXCEPT !.count = h.count + 1], ok |-> TRUE]
       ELSE IF should_steal
            THEN InsertLoopTieDisplaces(placed, h.objects[idx], bucket_hash,
                                        bucket_distance + 1)
            ELSE InsertLoopTieDisplaces(h, object, hash, distance + 1)

\* a placement loop that takes any tombstone it meets
RECURSIVE InsertLoopAnyTombstone(_, _, _, _)
InsertLoopAnyTombstone(h, object, hash, distance) ==
  IF distance >= h.size THEN [hmap |-> h, ok |-> FALSE]
  ELSE
    LET idx == hmap_index(h, hash, distance)
        bucket_hash == h.hashes[idx]
        bucket_distance == hmap_distance(h, idx, bucket_hash)
        should_steal == distance > bucket_distance
        placed == [h EXCEPT !.hashes[idx] = hash, !.objects[idx] = object]
    IN IF \/ bucket_hash = HMAP_HASH_FREE
          \/ HasDeletedBit(bucket_hash)
       THEN [hmap |-> [placed EXCEPT !.count = h.count + 1], ok |-> TRUE]
       ELSE IF should_steal
            THEN InsertLoopAnyTombstone(placed, h.objects[idx], bucket_hash,
                                        bucket_distance + 1)
            ELSE InsertLoopAnyTombstone(h, object, hash, distance + 1)

\* hmap_insert__: the placement loop; ok = FALSE when the loop ends without
\* a placement and assert(0) is reached
RECURSIVE InsertLoop(_, _, _, _)
InsertLoop(h, object, hash, distance) ==
  IF distance >= h.size THEN [hmap |-> h, ok |-> FALSE]
  ELSE
    LET idx == hmap_index(h, hash, distance)
        bucket_hash == h.hashes[idx]
        bucket_distance == hmap_distance(h, idx, bucket_hash)
        should_steal == distance > bucket_distance
        placed == [h EXCEPT !.hashes[idx] = hash, !.objects[idx] = object]
    IN IF \/ bucket_hash = HMAP_HASH_FREE
          \/ (HasDeletedBit(bucket_hash) /\ should_steal)
       THEN [hmap |-> [placed EXCEPT !.count = h.count + 1], ok |-> TRUE]
       ELSE IF should_steal
            THEN InsertLoop(placed, h.objects[idx], bucket_hash,
                            bucket_distance + 1)
            ELSE InsertLoop(h, object, hash, distance + 1)

hmap_insert__(h, object, hash) == InsertLoop(h, object, hash, 0)

\* a growth loop that re-inserts the tombstones too
RECURSIVE GrowLoopTombstones(_, _, _)
GrowLoopTombstones(new, old, idx) ==
  IF idx >= old.size THEN [hmap |-> new, ok |-> TRUE]
  ELSE
    LET hash == old.hashes[idx]
        object == old.objects[idx]
    IN IF hash # HMAP_HASH_FREE
       THEN LET r == hmap_insert__(new, object, hash)
            IN IF r.ok THEN GrowLoopTombstones(r.hmap, old, idx + 1) ELSE r
       ELSE GrowLoopTombstones(new, old, idx + 1)

\* hmap_grow: the loop over the old arrays, from slot idx on
RECURSIVE GrowLoop(_, _, _)
GrowLoop(new, old, idx) ==
  IF idx >= old.size THEN [hmap |-> new, ok |-> TRUE]
  ELSE
    LET hash == old.hashes[idx]
        object == old.objects[idx]
    IN IF hash # HMAP_HASH_FREE /\ ~HasDeletedBit(hash)
       THEN LET r == hmap_insert__(new, object, hash)
            IN IF r.ok THEN GrowLoop(r.hmap, old, idx + 1) ELSE r
       ELSE GrowLoop(new, old, idx + 1)

\* a growth that does not reset count
hmap_grow_keep_count(h) ==
  LET size == h.size * 2
      fresh == [h EXCEPT !.size = size,
                         !.threshold = Threshold(size, h.max_load_factor),
                         !.hashes = [i \in 0..(size - 1) |-> HMAP_HASH_FREE],
                         !.objects = [i \in 0..(size - 1) |-> NULL]]
  IN GrowLoop(fresh, h, 0)

\* a growth that does not recompute threshold
hmap_grow_stale_threshold(h) ==
  LET size == h.size * 2
      fresh == [h EXCEPT !.count = 0,
                         !.size = size,
                         !.hashes = [i \in 0..(size - 1) |-> HMAP_HASH_FREE],
                         !.objects = [i \in 0..(size - 1) |-> NULL]]
  IN GrowLoop(fresh, h, 0)

hmap_grow(h) ==
  LET size == h.size * 2
      fresh == [h EXCEPT !.count = 0,
                         !.size = size,
                         !.threshold = Threshold(size, h.max_load_factor),
                         !.hashes = [i \in 0..(size - 1) |-> HMAP_HASH_FREE],
                         !.objects = [i \in 0..(size - 1) |-> NULL]]
  IN GrowLoop(fresh, h, 0)

\* an insert that grows only when count exceeds threshold
hmap_insert_gt(h, object) ==
  LET g == IF h.count > h.threshold THEN hmap_grow(h)
           ELSE [hmap |-> h, ok |-> TRUE]
      hash == hmap_calc_hash(hmap_object_key(object))
  IN IF g.ok THEN hmap_insert__(g.hmap, object, hash) ELSE g

hmap_insert(h, object) ==
  LET g == IF h.count >= h.threshold THEN hmap_grow(h)
           ELSE [hmap |-> h, ok |-> TRUE]
      hash == hmap_calc_hash(hmap_object_key(object))
  IN IF g.ok THEN hmap_insert__(g.hmap, object, hash) ELSE g

\* a removal that frees the slot instead of leaving a tombstone
RECURSIVE RemoveLoopFree(_, _, _, _)
RemoveLoopFree(h, object, hash, distance) ==
  IF distance >= h.size THEN [hmap |-> h, ok |-> FALSE]
  ELSE
    LET idx == hmap_index(h, hash, distance)
        bucket_hash == h.hashes[idx]
    IN IF bucket_hash = hash /\ h.objects[idx] = object
       THEN [hmap |-> [h EXCEPT !.hashes[idx] = HMAP_HASH_FREE,
                                !.count = h.count - 1],
             ok |-> TRUE]
       ELSE RemoveLoopFree(h, object, hash, distance + 1)

\* a removal that takes the first slot of the object's hash, whatever object
\* it holds
RECURSIVE RemoveLoopAnyObject(_, _, _, _)
RemoveLoopAnyObject(h, object, hash, distance) ==
  IF distance >= h.size THEN [hmap |-> h, ok |-> FALSE]
  ELSE
    LET idx == hmap_index(h, hash, distance)
        bucket_hash == h.hashes[idx]
    IN IF bucket_hash = hash
       THEN [hmap |-> [h EXCEPT !.hashes[idx] = SetDeletedBit(hash),
                                !.count = h.count - 1],
             ok |-> TRUE]
       ELSE RemoveLoopAnyObject(h, object, hash, distance + 1)

\* hmap_remove: ok = FALSE when the object is not found and assert(0) is
\* reached
RECURSIVE RemoveLoop(_, _, _, _)
RemoveLoop(h, object, hash, distance) ==
  IF distance >= h.size THEN [hmap |-> h, ok |-> FALSE]
  ELSE
    LET idx == hmap_index(h, hash, distance)
        bucket_hash == h.hashes[idx]
    IN IF bucket_hash = hash /\ h.objects[idx] = object
       THEN [hmap |-> [h EXCEPT !.hashes[idx] = SetDeletedBit(hash),
                                !.count = h.count - 1],
             ok |-> TRUE]
       ELSE RemoveLoop(h, object, hash, distance + 1)

hmap_remove(h, object) ==
  RemoveLoop(h, object, hmap_calc_hash(hmap_object_key(object)), 0)

\* ------------------------------------------------------------- flow table
\* ft_entry.h: the states of a flow entry
FT_FLOW_STATE_FREE == "FREE"

FT_FLOW_STATE_NEW == "NEW"

FT_FLOW_STATE_DELETE_MARKED == "DELETE_MARKED"

FT_FLOW_STATE_IS_DELETED(st) == st = FT_FLOW_STATE_DELETE_MARKED

\* the reserved flow id of an entry that is not in use
INDIGO_FLOW_ID_INVALID == -1

\* indigo_error_t
INDIGO_ERROR_NONE == "NONE"

INDIGO_ERROR_RESOURCE == "RESOURCE"

INDIGO_ERROR_EXISTS == "EXISTS"

INDIGO_ERROR_NOT_FOUND == "NOT_FOUND"

INDIGO_ERROR_UNKNOWN == "UNKNOWN"

\* the flow ids, match keys, priorities and removal reasons of the callers
FlowIds == 1..NumFlowIds

Matches == {1, 2}

Priorities == {1, 2}

Reasons == {1, 2}

\* of_flow_add_t messages: the match, the priority and the cookie they
\* carry and the ports of their output actions
FlowAdds ==
  {[match |-> 1, priority |-> 1, cookie |-> 1, output_ports |-> <<1>>],
   [match |-> 2, priority |-> 1, cookie |-> 2, output_ports |-> <<>>]}

\* what the external calls of ft_entry_setup do: all succeed ("none"),
\* of_object_dup returns NULL ("dup"), of_flow_add_match_get fails
\* ("match"), or the action/instruction list cannot be obtained ("effects")
SetupFailures == {"none", "dup", "match", "effects"}

\* a pool slot after INDIGO_MEM_SET(ft->flow_entries, 0, bytes)
ZeroEntry ==
  [id |-> 0, state |-> FT_FLOW_STATE_FREE, match |-> 0, priority |-> 0,
   cookie |-> 0, table_id |-> 0, output_ports |-> <<>>,
   removed_reason |-> 0]

\* AIM list_push: the links are added at the tail of the list
list_push(list, e) == Append(list, e)

\* AIM list_remove: the links leave the list they are on
list_remove(list, e) == SelectSeq(list, LAMBDA x : x # e)

\* hindex: an index holds references to entries; a lookup compares the key
\* with the key field of the entries it holds
hindex_create == <<>>

hindex_insert(index, e) == Append(index, e)

hindex_remove(index, e) == SelectSeq(index, LAMBDA x : x # e)

\* the entries that hindex_lookup(index, &key, &state) returns from
\* state = 0 until it returns NULL
hindex_lookup_all(index, entries, field, key) ==
  SelectSeq(index, LAMBDA e : entries[e][field] = key)

\* hindex_lookup(index, &key, NULL)
hindex_lookup(index, entries, field, key) ==
  LET found == hindex_lookup_all(index, entries, field, key)
  IN IF found = <<>> THEN NULL ELSE found[1]

\* ft_hash_create; the pool slots are numbered from 1 and NULL is no entry
ft_hash_create(config) ==
  IF config.max_entries <= 0 THEN NULL
  ELSE [ config |-> config,
         status |-> [current_count |-> 0, pending_deletes |-> 0, adds |-> 0,
                     deletes |-> 0, table_full_errors |-> 0],
         flow_entries |-> [e \in 1..config.max_entries |-> ZeroEntry],
         free_list |-> [i \in 1..config.max_entries |-> i],
         all_list |-> <<>>,
         match_index |-> hindex_create,
         flow_id_index |-> hindex_create,
         priority_index |-> hindex_create ]

ft_id_lookup(t, id) == hindex_lookup(t.flow_id_index, t.flow_entries, "id", id)

\* ft_entry_setup: the entry as it is left, and the return value
ft_entry_setup(entry, id, flow_add, fail) ==
  LET with_id == [entry EXCEPT !.id = id]
      as_new == [with_id EXCEPT !.state = FT_FLOW_STATE_NEW]
      filled == [as_new EXCEPT !.match = flow_add.match,
                               !.cookie = flow_add.cookie,
                               !.priority = flow_add.priority]
      with_effects == [filled EXCEPT !.output_ports = flow_add.output_ports]
  IN IF fail = "dup"
     THEN [entry |-> with_id, rv |-> INDIGO_ERROR_RESOURCE]
     ELSE IF fail = "match"
     THEN [entry |-> as_new, rv |-> INDIGO_ERROR_UNKNOWN]
     ELSE IF fail = "effects"
     THEN [entry |-> filled, rv |-> INDIGO_ERROR_RESOURCE]
     ELSE [entry |-> with_effects, rv |-> INDIGO_ERROR_NONE]

\* an ft_entry_link that leaves the priority index out
ft_entry_link_no_priority(t, e) ==
  [t EXCEPT !.all_list = list_push(t.all_list, e),
            !.flow_id_index = hindex_insert(t.flow_id_index, e),
            !.match_index = hindex_insert(t.match_index, e)]

ft_entry_link(t, e) ==
  [t EXCEPT !.all_list = list_push(t.all_list, e),
            !.flow_id_index = hindex_insert(t.flow_id_index, e),
            !.priority_index = hindex_insert(t.priority_index, e),
            !.match_index = hindex_insert(t.match_index, e)]

\* an ft_entry_unlink that leaves the entry in the match index
ft_entry_unlink_keep_match(t, e) ==
  [t EXCEPT !.all_list = list_remove(t.all_list, e),
            !.free_list = list_remove(t.free_list, e),
            !.flow_id_index = hindex_remove(t.flow_id_index, e),
            !.priority_index = hindex_remove(t.priority_index, e)]

\* ft_entry_unlink; list_remove takes the table_links off the list they
\* are on
ft_entry_unlink(t, e) ==
  [t EXCEPT !.all_list = list_remove(t.all_list, e),
            !.free_list = list_remove(t.free_list, e),
            !.flow_id_index = hindex_remove(t.flow_id_index, e),
            !.priority_index = hindex_remove(t.priority_index, e),
            !.match_index = hindex_remove(t.match_index, e)]

ft_entry_clear(t, e) ==
  [t EXCEPT !.flow_entries[e].output_ports = <<>>,
            !.flow_entries[e].id = INDIGO_FLOW_ID_INVALID,
            !.flow_entries[e].state = FT_FLOW_STATE_FREE,
            !.status.pending_deletes =
               IF FT_FLOW_STATE_IS_DELETED(t.flow_entries[e].state)
               THEN @ - 1 ELSE @]

\* an ft_hash_flow_add that looks at the free list before it looks the id up
ft_hash_flow_add_full_first(t, id, flow_add, fail) ==
  IF t.free_list = <<>>
  THEN [ft |-> [t EXCEPT !.status.table_full_errors = @ + 1],
        rv |-> INDIGO_ERROR_RESOURCE, entry |-> NULL]
  ELSE IF ft_id_lookup(t, id) # NULL
  THEN [ft |-> t, rv |-> INDIGO_ERROR_EXISTS, entry |-> NULL]
  ELSE
    LET n == Len(t.free_list)
        entry == t.free_list[n]
        popped == [t EXCEPT !.free_list = SubSeq(t.free_list, 1, n - 1)]
        s == ft_entry_setup(t.flow_entries[entry], id, flow_add, fail)
        set_up == [popped EXCEPT !.flow_entries[entry] = s.entry]
    IN IF s.rv # INDIGO_ERROR_NONE
       THEN [ft |-> set_up, rv |-> s.rv, entry |-> NULL]
       ELSE [ft |-> [ft_entry_link(set_up, entry) EXCEPT
                       !.status.adds = @ + 1,
                       !.status.current_count = @ + 1],
             rv |-> INDIGO_ERROR_NONE, entry |-> entry]

\* an ft_hash_flow_add that does not count the adds a full table refuses
ft_hash_flow_add_no_full_count(t, id, flow_add, fail) ==
  IF ft_id_lookup(t, id) # NULL
  THEN [ft |-> t, rv |-> INDIGO_ERROR_EXISTS, entry |-> NULL]
  ELSE IF t.free_list = <<>>
  THEN [ft |-> t, rv |-> INDIGO_ERROR_RESOURCE, entry |-> NULL]
  ELSE
    LET n == Len(t.free_list)
        entry == t.free_list[n]
        popped == [t EXCEPT !.free_list = SubSeq(t.free_list, 1, n - 1)]
        s == ft_entry_setup(t.flow_entries[entry], id, flow_add, fail)
        set_up == [popped EXCEPT !.flow_entries[entry] = s.entry]
    IN IF s.rv # INDIGO_ERROR_NONE
       THEN [ft |-> set_up, rv |-> s.rv, entry |-> NULL]
       ELSE [ft |-> [ft_entry_link(set_up, entry) EXCEPT
                       !.status.adds = @ + 1,
                       !.status.current_count = @ + 1],
             rv |-> INDIGO_ERROR_NONE, entry |-> entry]

\* ft_hash_flow_add: the table as it is left, the return value and *entry_p
ft_hash_flow_add(t, id, flow_add, fail) ==
  IF ft_id_lookup(t, id) # NULL
  THEN [ft |-> t, rv |-> INDIGO_ERROR_EXISTS, entry |-> NULL]
  ELSE IF t.free_list = <<>>
  THEN [ft |-> [t EXCEPT !.status.table_full_errors = @ + 1],
        rv |-> INDIGO_ERROR_RESOURCE, entry |-> NULL]
  ELSE
    LET n == Len(t.free_list)
        entry == t.free_list[n]
        popped == [t EXCEPT !.free_list = SubSeq(t.free_list, 1, n - 1)]
        s == ft_entry_setup(t.flow_entries[entry], id, flow_add, fail)
        set_up == [popped EXCEPT !.flow_entries[entry] = s.entry]
    IN IF s.rv # INDIGO_ERROR_NONE
       THEN [ft |-> set_up, rv |-> s.rv, entry |-> NULL]
       ELSE [ft |-> [ft_entry_link(set_up, entry) EXCEPT
                       !.status.adds = @ + 1,
                       !.status.current_count = @ + 1],
             rv |-> INDIGO_ERROR_NONE, entry |-> entry]

\* an ft_hash_flow_delete without the test of the id
ft_hash_flow_delete_unchecked(t, entry) ==
  LET cleared == ft_entry_clear(ft_entry_unlink(t, entry), entry)
  IN [ft |-> [cleared EXCEPT
                !.free_list = list_push(cleared.free_list, entry),
                !.status.current_count = @ - 1,
                !.status.deletes = @ + 1],
      rv |-> INDIGO_ERROR_NONE]

ft_hash_flow_delete(t, entry) ==
  IF t.flow_entries[entry].id = INDIGO_FLOW_ID_INVALID
  THEN [ft |-> t, rv |-> INDIGO_ERROR_UNKNOWN]
  ELSE
    LET cleared == ft_entry_clear(ft_entry_unlink(t, entry), entry)
    IN [ft |-> [cleared EXCEPT
                  !.free_list = list_push(cleared.free_list, entry),
                  !.status.current_count = @ - 1,
                  !.status.deletes = @ + 1],
        rv |-> INDIGO_ERROR_NONE]

ft_hash_flow_delete_id(t, id) ==
  LET entry == ft_id_lookup(t, id)
  IN IF entry = NULL THEN [ft |-> t, rv |-> INDIGO_ERROR_NOT_FOUND]
     ELSE ft_hash_flow_delete(t, entry)

\* an ft_flow_mark_deleted that records the reason of every call
ft_flow_mark_deleted_last_reason(t, entry, reason) ==
  IF FT_FLOW_STATE_IS_DELETED(t.flow_entries[entry].state)
  THEN [t EXCEPT !.flow_entries[entry].removed_reason = reason]
  ELSE [t EXCEPT !.flow_entries[entry].state = FT_FLOW_STATE_DELETE_MARKED,
                 !.flow_entries[entry].removed_reason = reason,
                 !.status.pending_deletes = @ + 1]

\* an ft_flow_mark_deleted without the test for an entry that is already
\* deleted
\* a mark that takes the entry out of the flow id index
ft_flow_mark_deleted_unindexed(t, entry, reason) ==
  IF FT_FLOW_STATE_IS_DELETED(t.flow_entries[entry].state) THEN t
  ELSE [t EXCEPT !.flow_entries[entry].state = FT_FLOW_STATE_DELETE_MARKED,
                 !.flow_entries[entry].removed_reason = reason,
                 !.status.pending_deletes = @ + 1,
                 !.flow_id_index = hindex_remove(t.flow_id_index, entry)]

ft_flow_mark_deleted_again(t, entry, reason) ==
  [t EXCEPT !.flow_entries[entry].state = FT_FLOW_STATE_DELETE_MARKED,
            !.flow_entries[entry].removed_reason = reason,
            !.status.pending_deletes = @ + 1]

ft_flow_mark_deleted(t, entry, reason) ==
  IF FT_FLOW_STATE_IS_DELETED(t.flow_entries[entry].state) THEN t
  ELSE [t EXCEPT !.flow_entries[entry].state = FT_FLOW_STATE_DELETE_MARKED,
                 !.flow_entries[entry].removed_reason = reason,
                 !.status.pending_deletes = @ + 1]

\* ------------------------------------------------------------ query engine
\* of_match_query_mode_t
OF_MATCH_STRICT == "STRICT"

OF_MATCH_NON_STRICT == "NON_STRICT"

OF_MATCH_OVERLAP == "OVERLAP"

OF_MATCH_COOKIE_ONLY == "COOKIE_ONLY"

\* the sentinels of a query that does not filter on table or output port
TABLE_ID_ANY == 255

OF_PORT_DEST_WILDCARD == 65535

\* the match that has every field wildcarded; matches 1 and 2 are exact and
\* differ in a field
MatchAll == 3

\* of_match_eq: byte equality of the two matches
of_match_eq(entry_match, query_match) == entry_match = query_match

\* of_match_more_specific: the first match is at least as specific as the
\* second
of_match_more_specific(entry_match, query_match) ==
  entry_match = query_match \/ query_match = MatchAll

\* of_match_overlap: some packet is matched by both
of_match_overlap(entry_match, query_match) ==
  \/ entry_match = query_match
  \/ entry_match = MatchAll
  \/ query_match = MatchAll

\* the & of two cookies; the cookies of the model have two bits
CookieAnd(a, b) == 2 * ((a \div 2) * (b \div 2)) + (a % 2) * (b % 2)

\* the of_meta_match_t records of the callers; a query that does not check
\* the priority leaves it 0
Queries ==
  {q \in [mode : {OF_MATCH_STRICT, OF_MATCH_NON_STRICT, OF_MATCH_OVERLAP,
                  OF_MATCH_COOKIE_ONLY},
          match : {1, 2, MatchAll},
          check_priority : {0, 1},
          priority : {0} \cup Priorities,
          cookie : {1},
          cookie_mask : {0, 1, 3},
          table_id : {TABLE_ID_ANY, 0, 1},
          out_port : {OF_PORT_DEST_WILDCARD, 1}] :
     q.check_priority = 0 <=> q.priority = 0}

\* entry_has_out_port
entry_has_out_port(entry, port) ==
  IF \E i \in DOMAIN entry.output_ports : entry.output_ports[i] = port
  THEN 1 ELSE 0

\* ft_flow_meta_match
ft_flow_meta_match(query, entry) ==
  IF FT_FLOW_STATE_IS_DELETED(entry.state) THEN 0
  ELSE IF /\ query.cookie_mask # 0
          /\ CookieAnd(query.cookie, query.cookie_mask)
               # CookieAnd(entry.cookie, query.cookie_mask)
  THEN 0
  ELSE IF query.table_id # TABLE_ID_ANY /\ query.table_id # entry.table_id
  THEN 0
  ELSE IF query.check_priority # 0 /\ entry.priority # query.priority
  THEN 0
  ELSE IF query.mode = OF_MATCH_NON_STRICT
  THEN IF ~of_match_more_specific(entry.match, query.match) THEN 0
       ELSE IF /\ query.out_port # OF_PORT_DEST_WILDCARD
               /\ entry_has_out_port(entry, query.out_port) = 0
       THEN 0
       ELSE 1
  ELSE IF query.mode = OF_MATCH_STRICT
  THEN IF ~of_match_eq(entry.match, query.match) THEN 0
       ELSE IF /\ query.out_port # OF_PORT_DEST_WILDCARD
               /\ entry_has_out_port(entry, query.out_port) = 0
       THEN 0
       ELSE 1
  ELSE IF query.mode = OF_MATCH_COOKIE_ONLY THEN 1
  ELSE IF query.mode = OF_MATCH_OVERLAP
  THEN IF ~of_match_overlap(entry.match, query.match) THEN 0 ELSE 1
  ELSE 0

\* the entries that the loop of ft_flow_first_match and ft_flow_query
\* visits, in order: those the match index returns for the match of a
\* STRICT query, else those the priority index returns for the priority of
\* a query that checks the priority, else the all-entries list from its
\* head
QueryCandidates(t, query) ==
  IF query.mode = OF_MATCH_STRICT
  THEN hindex_lookup_all(t.match_index, t.flow_entries, "match", query.match)
  ELSE IF query.check_priority # 0
  THEN hindex_lookup_all(t.priority_index, t.flow_entries, "priority",
                         query.priority)
  ELSE t.all_list

\* the test of the loops on a candidate
QueryPasses(t, query, e) ==
  /\ ~FT_FLOW_STATE_IS_DELETED(t.flow_entries[e].state)
  /\ ft_flow_meta_match(query, t.flow_entries[e]) # 0

\* biglist_prepend
biglist_prepend(list, e) == <<e>> \o list

\* the loop of ft_flow_query over the candidates from position i
RECURSIVE QueryLoop(_, _, _, _, _)
QueryLoop(t, query, cands, i, list) ==
  IF i > Len(cands) THEN list
  ELSE QueryLoop(t, query, cands, i + 1,
                 IF QueryPasses(t, query, cands[i])
                 THEN biglist_prepend(list, cands[i]) ELSE list)

\* ft_flow_query: the list it returns; <<>> is the NULL list
ft_flow_query(t, query) ==
  QueryLoop(t, query, QueryCandidates(t, query), 1, <<>>)

\* an ft_flow_first_match that returns the first candidate untested
ft_flow_first_match_untested(t, query) ==
  LET cands == QueryCandidates(t, query)
  IN IF cands = <<>>
     THEN [rv |-> INDIGO_ERROR_NOT_FOUND, entry |-> NULL]
     ELSE [rv |-> INDIGO_ERROR_NONE, entry |-> cands[1]]

\* ft_flow_first_match: the return value and *entry_ptr
ft_flow_first_match(t, query) ==
  LET cands == QueryCandidates(t, query)
      passing == SelectSeq(cands, LAMBDA e : QueryPasses(t, query, e))
  IN IF passing = <<>>
     THEN [rv |-> INDIGO_ERROR_NOT_FOUND, entry |-> NULL]
     ELSE [rv |-> INDIGO_ERROR_NONE, entry |-> passing[1]]

\* the | of two cookies
CookieOr(a, b) == a + b - CookieAnd(a, b)

\* the cookies and cookie masks of the callers
Cookies == 0..3

\* a modify that keeps the bits outside the mask and sets those inside
ft_flow_modify_cookie_keep_unmasked(t, entry, cookie, cookie_mask) ==
  [ft |-> [t EXCEPT !.flow_entries[entry].cookie =
                      CookieOr(CookieAnd(@, 3 - cookie_mask),
                               CookieAnd(cookie, cookie_mask))],
   rv |-> INDIGO_ERROR_NONE]

\* ft_flow_modify_cookie: the table as it is left and the return value
ft_flow_modify_cookie(t, entry, cookie, cookie_mask) ==
  [ft |-> [t EXCEPT !.flow_entries[entry].cookie =
                      CookieOr(CookieAnd(@, cookie_mask),
                               CookieAnd(cookie, cookie_mask))],
   rv |-> INDIGO_ERROR_NONE]

\* ----------------------------------------------------------- iteration task
\* ind_soc_task_status_t
IND_SOC_TASK_CONTINUE == "CONTINUE"

IND_SOC_TASK_FINISHED == "FINISHED"

\* the NULL that ft_spawn_iter_task is given for a walk without a query
NoQuery ==
  [mode |-> "NULL", match |-> 0, check_priority |-> 0, priority |-> 0,
   cookie |-> 0, cookie_mask |-> 0, table_id |-> 0, out_port |-> 0]

\* no task has been spawned
NoTask ==
  [status |-> "none", idx |-> 0, use_query |-> 0, query |-> NoQuery,
   rv |-> "none"]

NoWalk ==
  [steady |-> {}, ahead |-> {}, behind |-> {}, gone |-> {}, ticks |-> 0]

\* what the external calls of ft_spawn_iter_task do: both succeed ("none"),
\* INDIGO_MEM_ALLOC returns NULL ("alloc"), or ind_soc_task_register fails
\* ("register")
SpawnFailures == {"none", "alloc", "register"}

\* ft_spawn_iter_task: the task it leaves registered, if any, and the
\* return value
ft_spawn_iter_task(query, fail) ==
  IF fail = "alloc"
  THEN [task |-> NoTask, rv |-> INDIGO_ERROR_RESOURCE]
  ELSE IF fail = "register"
  THEN [task |-> NoTask, rv |-> INDIGO_ERROR_UNKNOWN]
  ELSE [task |-> [status |-> "registered", idx |-> 0,
                  use_query |-> IF query # NoQuery THEN 1 ELSE 0,
                  query |-> query, rv |-> "none"],
        rv |-> INDIGO_ERROR_NONE]

\* what the callback is invoked with for slot e: the entry and its flow id
CallbackArg(t, e) == <<e, t.flow_entries[e].id>>

NullArg == <<NULL, NULL>>

\* the tests of the loop body on the slot it has read
IterPasses(t, use_query, query, e) ==
  /\ t.flow_entries[e].state # FT_FLOW_STATE_FREE
  /\ ~FT_FLOW_STATE_IS_DELETED(t.flow_entries[e].state)
  /\ use_query # 0 => ft_flow_meta_match(query, t.flow_entries[e]) # 0

\* a loop that leaves idx at the slot it has just read when it yields
RECURSIVE IterLoopRevisit(_, _, _, _, _, _)
IterLoopRevisit(t, use_query, query, idx, k, made) ==
  IF idx = t.config.max_entries
  THEN [idx |-> idx, calls |-> Append(made, NullArg),
        rv |-> IND_SOC_TASK_FINISHED]
  ELSE
    LET e == idx + 1
        now == IF IterPasses(t, use_query, query, e)
               THEN Append(made, CallbackArg(t, e)) ELSE made
    IN IF k = 1
       THEN [idx |-> idx, calls |-> now, rv |-> IND_SOC_TASK_CONTINUE]
       ELSE IterLoopRevisit(t, use_query, query, idx + 1, k - 1, now)

\* a loop in which continue skips the call of ind_soc_should_yield
RECURSIVE IterLoopContinueSkipsYield(_, _, _, _, _, _)
IterLoopContinueSkipsYield(t, use_query, query, idx, k, made) ==
  IF idx = t.config.max_entries
  THEN [idx |-> idx, calls |-> Append(made, NullArg),
        rv |-> IND_SOC_TASK_FINISHED]
  ELSE
    LET e == idx + 1
    IN IF ~IterPasses(t, use_query, query, e)
       THEN IterLoopContinueSkipsYield(t, use_query, query, idx + 1, k, made)
       ELSE IF k = 1
       THEN [idx |-> idx + 1, calls |-> Append(made, CallbackArg(t, e)),
             rv |-> IND_SOC_TASK_CONTINUE]
       ELSE IterLoopContinueSkipsYield(t, use_query, query, idx + 1, k - 1,
                                       Append(made, CallbackArg(t, e)))

\* a loop that hands over the entries that are marked deleted too
RECURSIVE IterLoopPassesDeleted(_, _, _, _, _, _)
IterLoopPassesDeleted(t, use_query, query, idx, k, made) ==
  IF idx = t.config.max_entries
  THEN [idx |-> idx, calls |-> Append(made, NullArg),
        rv |-> IND_SOC_TASK_FINISHED]
  ELSE
    LET e == idx + 1
        now == IF t.flow_entries[e].state # FT_FLOW_STATE_FREE
               THEN Append(made, CallbackArg(t, e)) ELSE made
    IN IF k = 1
       THEN [idx |-> idx + 1, calls |-> now, rv |-> IND_SOC_TASK_CONTINUE]
       ELSE IterLoopPassesDeleted(t, use_query, query, idx + 1, k - 1, now)

\* the do-while loop of ft_iter_task_callback from idx on; ind_soc_should_yield
\* answers true the k-th time the loop asks. The result is idx, the
\* callback invocations made and the return value.
RECURSIVE IterLoop(_, _, _, _, _, _)
IterLoop(t, use_query, query, idx, k, made) ==
  IF idx = t.config.max_entries
  THEN [idx |-> idx, calls |-> Append(made, NullArg),
        rv |-> IND_SOC_TASK_FINISHED]
  ELSE
    LET e == idx + 1
        now == IF IterPasses(t, use_query, query, e)
               THEN Append(made, CallbackArg(t, e)) ELSE made
    IN IF k = 1
       THEN [idx |-> idx + 1, calls |-> now, rv |-> IND_SOC_TASK_CONTINUE]
       ELSE IterLoop(t, use_query, query, idx + 1, k - 1, now)

\* ft_iter_task_callback: one tick of the task
ft_iter_task_callback(t, task, k) ==
  IterLoop(t, task.use_query, task.query, task.idx, k, <<>>)

\* ---------------------------------------------------------------- actions
Tombstones(h) == {i \in DOMAIN h.hashes : HasDeletedBit(h.hashes[i])}

\* the state after the objects are made with the keys of a table of kts and
\* hmap_create(hash_uint32, hmap_uint32_equality, offsetof(struct obj, key),
\* lf) has returned, for a load factor lf of lfs
Created(kts, lfs) ==
  /\ okeys \in kts
  /\ \E lf \in lfs : hmap = hmap_create(lf)
  /\ members = {}
  /\ aborted = FALSE
  /\ lkey = U32(0, 0)
  /\ state = 0
  /\ results = <<>>
  /\ slots = [i \in 0..(HMAP_INITIAL_SIZE - 1) |-> "never"]
  /\ ft = ft_hash_create([max_entries |-> MaxEntries])
  /\ iter = NoTask
  /\ calls = <<>>
  /\ walk = NoWalk

Init == Created(KeyTables, LoadFactors)

InitFill == Created({FillKeyTable}, FillLoadFactors)

\* the table is modified: a lookup iteration in progress is over
EndLookup ==
  /\ lkey' = U32(0, 0)
  /\ state' = 0
  /\ results' = <<>>
  /\ okeys' = okeys
  /\ UNCHANGED ftvars

\* the slots hmap_insert has written: all the occupied ones of the new
\* arrays after a growth, else the ones whose cell changed
SlotsAfterInsert(old, new) ==
  IF new.size # old.size
  THEN [i \in DOMAIN new.hashes |->
          IF new.objects[i] # NULL THEN "live" ELSE "never"]
  ELSE [i \in DOMAIN new.hashes |->
          IF new.hashes[i] # old.hashes[i] \/ new.objects[i] # old.objects[i]
          THEN "live" ELSE slots[i]]

\* hmap_insert(hmap, obj) for an object the caller has not in the table
Insert(o) ==
  /\ ~aborted
  /\ o \notin members
  /\ LET r == hmap_insert(hmap, o)
     IN IF r.ok
        THEN /\ hmap' = r.hmap
             /\ members' = members \cup {o}
             /\ slots' = SlotsAfterInsert(hmap, r.hmap)
             /\ aborted' = FALSE
        ELSE /\ aborted' = TRUE
             /\ UNCHANGED <<hmap, members, slots>>
  /\ EndLookup

\* hmap_insert of an object whose key no object of the table has
\* (test_fill)
InsertDistinct(o) ==
  /\ \A m \in members : hmap_object_key(m) # hmap_object_key(o)
  /\ Insert(o)

\* hmap_remove(hmap, obj); "The object must already exist in the hmap."
\* The caller stops removing when the table holds cap tombstones.
Remove(o, cap) ==
  /\ ~aborted
  /\ o \in members
  /\ Cardinality(Tombstones(hmap)) < cap
  /\ LET r == hmap_remove(hmap, o)
     IN IF r.ok
        THEN /\ hmap' = r.hmap
             /\ members' = members \ {o}
             /\ slots' = [i \in DOMAIN slots |->
                            IF r.hmap.hashes[i] # hmap.hashes[i]
                            THEN "removed" ELSE slots[i]]
             /\ aborted' = FALSE
        ELSE /\ aborted' = TRUE
             /\ UNCHANGED <<hmap, members, slots>>
  /\ EndLookup

\* hmap_lookup(hmap, &key, NULL)
Lookup(k) ==
  /\ ~aborted
  /\ results = <<>>
  /\ results' = <<hmap_lookup(hmap, k, -1).object>>
  /\ lkey' = k
  /\ UNCHANGED <<okeys, hmap, members, aborted, state, slots, ftvars>>

\* state = 0; hmap_lookup(hmap, &key, &state): the first call of an iteration
LookupFirst(k) ==
  /\ ~aborted
  /\ results = <<>>
  /\ LET r == hmap_lookup(hmap, k, 0)
     IN /\ state' = r.state
        /\ results' = <<r.object>>
  /\ lkey' = k
  /\ UNCHANGED <<okeys, hmap, members, aborted, slots, ftvars>>

\* hmap_lookup(hmap, &key, &state) again with the same state pointer
LookupNext ==
  /\ ~aborted
  /\ results # <<>>
  /\ results[Len(results)] # NULL
  /\ LET r == hmap_lookup(hmap, lkey, state)
     IN /\ state' = r.state
        /\ results' = Append(results, r.object)
  /\ UNCHANGED <<okeys, hmap, members, aborted, lkey, slots, ftvars>>

\* inserts and removes in any order
Next ==
  \/ \E o \in Objs : Insert(o)
  \/ \E o \in Objs : Remove(o, MaxTombstones)

Spec == Init /\ [][Next]_vars

\* test_multi: inserts, removes and lookup iterations in any order
NextIter ==
  \/ \E o \in IterObjs : Insert(o)
  \/ \E o \in IterObjs : Remove(o, MaxTombstones)
  \/ \E k \in IterKeys : LookupFirst(k)
  \/ LookupNext

SpecIter == Init /\ [][NextIter]_vars

\* test_fill: objects with pairwise distinct keys are inserted and looked up
NextFill ==
  \/ \E o \in FillObjs : InsertDistinct(o)
  \/ \E k \in FillKeys : Lookup(k)

SpecFill == InitFill /\ [][NextFill]_vars

\* inserts and removes that fill the table up to its threshold
NextLoad ==
  \/ \E o \in LoadObjs : Insert(o)
  \/ \E o \in LoadObjs : Remove(o, MaxLoadTombstones)

SpecLoad == InitFill /\ [][NextLoad]_vars

\* objects of one key are inserted and removed again and again in a table
\* that stays below its threshold; the caller removes whatever the number
\* of tombstones
InitCycle == Created({MultiKeys}, {<<7, 8>>})

NextCycle ==
  \/ \E o \in IterObjs : Insert(o)
  \/ \E o \in IterObjs : Remove(o, HMAP_INITIAL_SIZE)

SpecCycle == InitCycle /\ [][NextCycle]_vars

\* --------------------------------------------------- flow table actions
\* the entries a caller holds a reference to: those it got from an add, a
\* lookup or a query and has not deleted
Held(t) == {t.all_list[i] : i \in DOMAIN t.all_list}

\* ft_hash_flow_add(ft, id, flow_add, &entry)
FtAdd(id, flow_add, fail) ==
  /\ ft.status.adds + ft.status.table_full_errors < MaxAdds
  /\ ft' = ft_hash_flow_add(ft, id, flow_add, fail).ft
  /\ UNCHANGED <<hmapvars, itervars>>

\* ft_hash_flow_delete(ft, entry) on an entry of the table, or again on an
\* entry that it has deleted
FtDelete(entry) ==
  /\ \/ entry \in Held(ft)
     \/ ft.flow_entries[entry].id = INDIGO_FLOW_ID_INVALID
  /\ ft' = ft_hash_flow_delete(ft, entry).ft
  /\ UNCHANGED <<hmapvars, itervars>>

\* ft_hash_flow_delete_id(ft, id)
FtDeleteId(id) ==
  /\ ft' = ft_hash_flow_delete_id(ft, id).ft
  /\ UNCHANGED <<hmapvars, itervars>>

\* ft_flow_mark_deleted(ft, entry, reason) on an entry of the table
FtMarkDeleted(entry, reason) ==
  /\ entry \in Held(ft)
  /\ ft' = ft_flow_mark_deleted(ft, entry, reason)
  /\ UNCHANGED <<hmapvars, itervars>>

\* the flow table is created and then added to, marked and deleted from in
\* any order
InitFT == Created({RobinHoodKeys}, {<<7, 8>>})

NextFT ==
  \/ \E id \in FlowIds, fa \in FlowAdds, fail \in SetupFailures :
       FtAdd(id, fa, fail)
  \/ \E e \in 1..MaxEntries : FtDelete(e)
  \/ \E id \in FlowIds : FtDeleteId(id)
  \/ \E e \in 1..MaxEntries, reason \in Reasons : FtMarkDeleted(e, reason)

SpecFT == InitFT /\ [][NextFT]_vars

\* of_flow_add_t messages with equal and different matches, priorities,
\* cookies and output ports
QueryFlowAdds ==
  {[match |-> 1, priority |-> 1, cookie |-> 1, output_ports |-> <<1>>],
   [match |-> 1, priority |-> 2, cookie |-> 2, output_ports |-> <<>>],
   [match |-> 2, priority |-> 1, cookie |-> 3, output_ports |-> <<2, 1>>],
   [match |-> MatchAll, priority |-> 2, cookie |-> 1, output_ports |-> <<2>>]}

\* the external calls of the adds succeed, or of_flow_add_match_get fails
QueryFailures == {"none", "match"}

\* the table is added to, marked and deleted from, and queried in every
\* state; the caller numbers the flows it adds
NextQuery ==
  \/ \E fa \in QueryFlowAdds, fail \in QueryFailures :
       FtAdd(ft.status.adds + 1, fa, fail)
  \/ \E e \in 1..MaxEntries : FtMarkDeleted(e, 1)
  \/ \E e \in 1..MaxEntries : FtDelete(e)

SpecQuery == InitFT /\ [][NextQuery]_vars

\* ft_flow_modify_cookie(ft, entry, cookie, cookie_mask) on an entry of the
\* table
FtModifyCookie(entry, cookie, cookie_mask) ==
  /\ entry \in Held(ft)
  /\ ft' = ft_flow_modify_cookie(ft, entry, cookie, cookie_mask).ft
  /\ UNCHANGED <<hmapvars, itervars>>

\* flows are added, marked and deleted and their cookies modified
NextCookie ==
  \/ \E fa \in FlowAdds : FtAdd(ft.status.adds + 1, fa, "none")
  \/ \E e \in 1..MaxEntries : FtMarkDeleted(e, 1)
  \/ \E e \in 1..MaxEntries : FtDelete(e)
  \/ \E e \in 1..MaxEntries, c \in Cookies, m \in Cookies :
       FtModifyCookie(e, c, m)

SpecCookie == InitFT /\ [][NextCookie]_vars

\* ------------------------------------------------- iteration task actions
\* the queries of the walks: none, or the entries at least as specific as
\* match 1
WalkQueries ==
  {NoQuery,
   [mode |-> OF_MATCH_NON_STRICT, match |-> 1, check_priority |-> 0,
    priority |-> 0, cookie |-> 1, cookie_mask |-> 0,
    table_id |-> TABLE_ID_ANY, out_port |-> OF_PORT_DEST_WILDCARD]}

\* the external calls of the adds succeed, or of_flow_add_match_get fails
WalkFailures == {"none", "match"}

\* the numbers of slots after which ind_soc_should_yield answers true in a
\* tick; after MaxEntries + 1 it never does before the walk ends
YieldAfter == 1..(MaxEntries + 1)

\* the entries that the callback would be handed now
PassingNow(t, task) ==
  {CallbackArg(t, e) : e \in {x \in DOMAIN t.flow_entries :
                                IterPasses(t, task.use_query, task.query, x)}}

\* the history of the walk after a call that took the table from old to
\* new and linked the entry added (NULL if none)
WalkAfter(old, new, task, w, added) ==
  IF task.status # "registered" THEN w
  ELSE
    LET is_new(p) ==
          /\ new.flow_entries[p[1]].id = p[2]
          /\ new.flow_entries[p[1]].state = FT_FLOW_STATE_NEW
        lost == {CallbackArg(old, e) :
                   e \in {x \in DOMAIN old.flow_entries :
                            /\ x > task.idx
                            /\ old.flow_entries[x].state # FT_FLOW_STATE_FREE
                            /\ new.flow_entries[x].state
                                 # old.flow_entries[x].state}}
        here == IF added = NULL THEN {} ELSE {CallbackArg(new, added)}
    IN [w EXCEPT
          !.steady = w.steady \cap PassingNow(new, task),
          !.ahead = {p \in w.ahead : is_new(p)}
                      \cup (IF added > task.idx THEN here ELSE {}),
          !.behind = w.behind \cup (IF added <= task.idx THEN here ELSE {}),
          !.gone = w.gone \cup lost]

\* ft_spawn_iter_task(ft, query, callback, cookie, priority)
Spawn(query, fail) ==
  /\ iter.status = "none"
  /\ LET r == ft_spawn_iter_task(query, fail)
     IN /\ iter' = r.task
        /\ walk' = IF r.rv = INDIGO_ERROR_NONE
                    THEN [NoWalk EXCEPT !.steady = PassingNow(ft, r.task)]
                    ELSE walk
  /\ UNCHANGED <<hmapvars, ft, calls>>

\* the scheduler runs ft_iter_task_callback of the registered task
Tick(k) ==
  /\ iter.status = "registered"
  /\ LET r == ft_iter_task_callback(ft, iter, k)
     IN /\ iter' = [iter EXCEPT
                      !.idx = r.idx,
                      !.rv = r.rv,
                      !.status = IF r.rv = IND_SOC_TASK_FINISHED
                                 THEN "finished" ELSE @]
        /\ calls' = calls \o r.calls
  /\ UNCHANGED <<hmapvars, ft, walk>>

\* the calls on the table before the walk and between its ticks
WalkAdd(flow_add, fail) ==
  /\ iter.status # "finished"
  /\ ft.status.adds + ft.status.table_full_errors < MaxAdds
  /\ LET r == ft_hash_flow_add(ft, ft.status.adds + 1, flow_add, fail)
     IN /\ ft' = r.ft
        /\ walk' = WalkAfter(ft, r.ft, iter, walk, r.entry)
  /\ UNCHANGED <<hmapvars, iter, calls>>

WalkDelete(entry) ==
  /\ iter.status # "finished"
  /\ entry \in Held(ft)
  /\ ft' = ft_hash_flow_delete(ft, entry).ft
  /\ walk' = WalkAfter(ft, ft', iter, walk, NULL)
  /\ UNCHANGED <<hmapvars, iter, calls>>

WalkMarkDeleted(entry) ==
  /\ iter.status # "finished"
  /\ entry \in Held(ft)
  /\ ft' = ft_flow_mark_deleted(ft, entry, 1)
  /\ walk' = WalkAfter(ft, ft', iter, walk, NULL)
  /\ UNCHANGED <<hmapvars, iter, calls>>

\* a task is spawned on a table that is added to, marked and deleted from
\* before the walk and between its ticks
NextWalk ==
  \/ \E fa \in FlowAdds, fail \in WalkFailures : WalkAdd(fa, fail)
  \/ \E e \in 1..MaxEntries : WalkDelete(e)
  \/ \E e \in 1..MaxEntries : WalkMarkDeleted(e)
  \/ \E q \in WalkQueries, fail \in SpawnFailures : Spawn(q, fail)
  \/ \E k \in YieldAfter : Tick(k)

SpecWalk == InitFT /\ [][NextWalk]_vars

\* the scheduler runs ft_iter_task_callback of the registered task and the
\* runs are counted; a scheduler that has run the task MaxEntries + 2 times
\* is followed no further
CountedTick(k) ==
  /\ iter.status = "registered"
  /\ walk.ticks <= MaxEntries + 1
  /\ LET r == ft_iter_task_callback(ft, iter, k)
     IN /\ iter' = [iter EXCEPT
                      !.idx = r.idx,
                      !.rv = r.rv,
                      !.status = IF r.rv = IND_SOC_TASK_FINISHED
                                 THEN "finished" ELSE @]
        /\ calls' = calls \o r.calls
  /\ walk' = [walk EXCEPT !.ticks = @ + 1]
  /\ UNCHANGED <<hmapvars, ft>>

\* the of_flow_add_t message of the adds around the ticks
TickFlowAdds ==
  {[match |-> 1, priority |-> 1, cookie |-> 1, output_ports |-> <<1>>]}

\* a task is spawned on a table that is added to, marked and deleted from
\* before, between and after its ticks; the scheduler keeps calling a
\* registered task
NextTicks ==
  \/ \E fa \in TickFlowAdds : FtAdd(ft.status.adds + 1, fa, "none")
  \/ \E e \in 1..MaxEntries : FtMarkDeleted(e, 1)
  \/ \E e \in 1..MaxEntries : FtDelete(e)
  \/ \E q \in WalkQueries, fail \in SpawnFailures : Spawn(q, fail)
  \/ \E k \in YieldAfter : CountedTick(k)

SpecTicks ==
  /\ InitFT
  /\ [][NextTicks]_vars
  /\ WF_vars(\E k \in YieldAfter : CountedTick(k))

\* the status codes that the flow table calls return
IndigoErrors ==
  {INDIGO_ERROR_NONE, INDIGO_ERROR_RESOURCE, INDIGO_ERROR_EXISTS,
   INDIGO_ERROR_NOT_FOUND, INDIGO_ERROR_UNKNOWN}

\* ------------------------------------------------- what a table contains
\* the slots that hold an entry: neither free nor a tombstone (the test of
\* hmap_grow and hmap_stats)
Live(h) ==
  {i \in DOMAIN h.hashes :
     h.hashes[i] # HMAP_HASH_FREE /\ ~HasDeletedBit(h.hashes[i])}

Range(seq) == {seq[i] : i \in DOMAIN seq}

\* test_multi: state = 0, then hmap_lookup(hmap, &key, &state) until it
\* returns NULL; the objects returned, in order
RECURSIVE EnumFrom(_, _, _)
EnumFrom(h, key, st) ==
  LET r == hmap_lookup(h, key, st)
  IN IF r.object = NULL THEN <<>>
     ELSE <<r.object>> \o EnumFrom(h, key, r.state)

Enumeration(h, key) == EnumFrom(h, key, 0)

\* the objects of the caller that are in the table under key k
MembersWithKey(k) == {o \in members : hmap_object_key(o) = k}

\* the step is a completed hmap_insert / hmap_remove
InsertStep == members' # members /\ members \subseteq members'

RemoveStep == members' # members /\ members' \subseteq members

\* ------------------------------------------------------------------ C1
\* C1: after inserts of objects with pairwise distinct keys and no remove,
\* hmap_lookup(k, NULL) returns the object inserted with key k for every
\* inserted k and NULL for every key that was never inserted; the lookup
\* calls the caller has made returned just that.
C1_InsertLookupRoundTrip ==
  ~aborted =>
    /\ \A k \in FillKeys :
          LET r == hmap_lookup(hmap, k, -1).object
          IN IF MembersWithKey(k) = {} THEN r = NULL
             ELSE r \in MembersWithKey(k)
    /\ results # <<>> =>
          IF MembersWithKey(lkey) = {} THEN results[1] = NULL
          ELSE results[1] \in MembersWithKey(lkey)

\* a lookup has returned its object after the table has grown, with
\* another key of the same stored hash in the table
C1_Witness ==
  /\ hmap.size = 2 * HMAP_INITIAL_SIZE
  /\ results # <<>>
  /\ results[1] \in members
  /\ \E o \in members :
        /\ o # results[1]
        /\ hmap_calc_hash(hmap_object_key(o)) = hmap_calc_hash(lkey)

C3_TombstoneResilience ==
  [][(RemoveStep /\ ~aborted') =>
       \A y \in members' :
         y \in Range(Enumeration(hmap', hmap_object_key(y)))]_vars

\* the slots between the ideal bucket of live slot i and i
ProbePath(h, i) ==
  {hmap_index(h, h.hashes[i], k) :
     k \in 0..(hmap_distance(h, i, h.hashes[i]) - 1)}

\* a tombstone lies on the probe path of an object of the table
C3_Witness ==
  \E i \in Live(hmap) :
    /\ hmap.objects[i] \in members
    /\ ProbePath(hmap, i) \cap Tombstones(hmap) # {}

\* ------------------------------------------------------------------ C4
\* C4: count (what hmap_count returns) is the number of slots whose hash
\* cell is neither FREE nor a tombstone.
C4_CountIsLiveSlots == hmap_count(hmap) = Cardinality(Live(hmap))

\* live slots and a tombstone in a table that has grown
C4_Witness ==
  /\ hmap.size = 2 * HMAP_INITIAL_SIZE
  /\ hmap_count(hmap) = 3
  /\ Tombstones(hmap) # {}

\* ------------------------------------------------------------------ C5
\* C5: hmap_remove(obj) tombstones exactly the one slot that holds obj (the
\* cell becomes hash | 0x80000000 with the low 31 bits kept), decrements
\* count by one and changes no other slot nor the size; afterwards the
\* enumeration of obj's key no longer yields obj and still yields every
\* other object of the table with an equal key.
C5_RemoveFrame ==
  [][(RemoveStep /\ ~aborted') =>
       LET x == CHOOSE o \in members : o \notin members'
           k == hmap_object_key(x)
           changed == {i \in DOMAIN hmap.hashes :
                         hmap'.hashes[i] # hmap.hashes[i]}
       IN /\ DOMAIN hmap'.hashes = DOMAIN hmap.hashes
          /\ hmap'.size = hmap.size
          /\ hmap'.threshold = hmap.threshold
          /\ hmap'.objects = hmap.objects
          /\ hmap'.count = hmap.count - 1
          /\ changed = {i \in Live(hmap) : hmap.objects[i] = x}
          /\ Cardinality(changed) = 1
          /\ \A i \in changed :
                /\ hmap.hashes[i] = hmap_calc_hash(k)
                /\ hmap'.hashes[i] = U32(1, hmap.hashes[i][2])
          /\ x \notin Range(Enumeration(hmap', k))
          /\ \A y \in members' :
                hmap_object_key(y) = k => y \in Range(Enumeration(hmap', k))
     ]_vars

\* an object has been removed while another object with an equal key stays
\* in the table
C5_Witness ==
  \E t \in Tombstones(hmap), j \in Live(hmap) :
    /\ slots[t] = "removed"
    /\ hmap.objects[j] # hmap.objects[t]
    /\ hmap.objects[t] \notin members
    /\ hmap_object_key(hmap.objects[j]) = hmap_object_key(hmap.objects[t])

\* ------------------------------------------------------------------ C6
\* C6 as the specification words it: for every live slot i there is no
\* other live slot j on the probe path of stored_hash[i] before i whose
\* own probe distance exceeds the probe distance of i.
C6_RobinHoodAsWorded ==
  \A i \in Live(hmap) :
    \A j \in (Live(hmap) \cap ProbePath(hmap, i)) \ {i} :
      ~(hmap_distance(hmap, j, hmap.hashes[j])
          > hmap_distance(hmap, i, hmap.hashes[i]))

\* C6 amended: for every live slot i, every live slot j on the probe path
\* of stored_hash[i] before i has a probe distance that is at least the
\* offset of j from the ideal bucket of i.
C6_RobinHoodOrdering ==
  \A i \in Live(hmap) :
    \A k \in 0..(hmap_distance(hmap, i, hmap.hashes[i]) - 1) :
      LET j == hmap_index(hmap, hmap.hashes[i], k)
      IN j \in Live(hmap) => hmap_distance(hmap, j, hmap.hashes[j]) >= k

\* after a removal, a live slot has on its probe path a live slot of
\* greater probe distance than its own
C6_Witness ==
  /\ Tombstones(hmap) # {}
  /\ \E i \in Live(hmap) :
       \E j \in (Live(hmap) \cap ProbePath(hmap, i)) \ {i} :
         hmap_distance(hmap, j, hmap.hashes[j])
           > hmap_distance(hmap, i, hmap.hashes[i])

\* ------------------------------------------------------------------ C7
\* C7: with the default load factor 0.8 or the 0.875 of the tests,
\* count < size holds after every hmap_insert, whatever inserts and removes
\* came before.
C7_LoadInvariant == ~aborted => hmap.count < hmap.size

\* the table has grown while it was filled up: it holds as many objects
\* as the initial arrays had slots
C7_Witness ==
  /\ hmap.size = 2 * HMAP_INITIAL_SIZE
  /\ hmap.count = HMAP_INITIAL_SIZE

\* ------------------------------------------------------------------ C8
\* size is HMAP_INITIAL_SIZE doubled some number of times
RECURSIVE IsDoubledInitialSize(_)
IsDoubledInitialSize(n) ==
  \/ n = HMAP_INITIAL_SIZE
  \/ /\ n > HMAP_INITIAL_SIZE
     /\ n % 2 = 0
     /\ IsDoubledInitialSize(n \div 2)

\* C8: size changes only in an hmap_insert, exactly when count >= threshold
\* (size x max_load_factor) at its start, and then it doubles once; no
\* other operation changes size, so size is always 8 * 2^k and never
\* decreases.
C8_GrowthOnlyOnInsert ==
  [][/\ IsDoubledInitialSize(hmap.size)
     /\ IsDoubledInitialSize(hmap'.size)
     /\ hmap'.size >= hmap.size
     /\ hmap.threshold = Threshold(hmap.size, hmap.max_load_factor)
     /\ hmap'.threshold = Threshold(hmap'.size, hmap'.max_load_factor)
     /\ hmap'.size # hmap.size =>
          /\ InsertStep
          /\ hmap.count >= hmap.threshold
          /\ hmap'.size = 2 * hmap.size
     /\ (InsertStep /\ hmap.count >= hmap.threshold) =>
          hmap'.size = 2 * hmap.size
     /\ RemoveStep => hmap'.size = hmap.size
    ]_vars

\* the table has grown and removes have since emptied it below the
\* threshold of the initial size
C8_Witness ==
  /\ hmap.size = 2 * HMAP_INITIAL_SIZE
  /\ hmap.count < Threshold(HMAP_INITIAL_SIZE, hmap.max_load_factor)
  /\ Tombstones(hmap) # {}

\* ------------------------------------------------------------------ C9
\* the live (stored hash, object) pairs of a table, and how often one
\* occurs
LivePairs(h) == {<<h.hashes[i], h.objects[i]>> : i \in Live(h)}

PairCount(h, p) ==
  Cardinality({i \in Live(h) : <<h.hashes[i], h.objects[i]>> = p})

\* C9: hmap_grow keeps the multiset of live (stored hash, object) pairs and
\* count, doubles size, drops every tombstone, and every object that the
\* lookup enumerated before the growth is enumerated after it.
C9_GrowPreservesContents ==
  ~aborted =>
    LET g == hmap_grow(hmap)
        n == g.hmap
    IN /\ g.ok
       /\ n.size = 2 * hmap.size
       /\ n.count = hmap.count
       /\ Tombstones(n) = {}
       /\ \A p \in LivePairs(hmap) \cup LivePairs(n) :
             PairCount(n, p) = PairCount(hmap, p)
       /\ \A k \in Keys :
             Range(Enumeration(hmap, k)) \subseteq Range(Enumeration(n, k))

\* a table at its threshold, so that the next insert grows it, has
\* tombstones and more than one live entry
C9_Witness ==
  /\ hmap.count >= hmap.threshold
  /\ hmap.count >= 2
  /\ Tombstones(hmap) # {}

\* ----------------------------------------------------------------- C10
\* raw hash values, 0 and 0x80000000 among them
RawHashes == {U32(b, l) : b \in {0, 1}, l \in {0, 1, 9}}

\* C10: whatever the user hash function returns, the hash stored for a
\* live slot is non-zero and has bit 0x80000000 clear; a hash cell is FREE
\* only in a never-used slot and has the tombstone bit only in a removed
\* slot.
C10_StoredHashSanitized ==
  /\ \A raw \in RawHashes :
        /\ hmap_calc_hash(raw) # HMAP_HASH_FREE
        /\ ~HasDeletedBit(hmap_calc_hash(raw))
  /\ \A i \in DOMAIN hmap.hashes :
        /\ slots[i] = "live" =>
              /\ hmap.hashes[i] # HMAP_HASH_FREE
              /\ ~HasDeletedBit(hmap.hashes[i])
        /\ hmap.hashes[i] = HMAP_HASH_FREE => slots[i] = "never"
        /\ HasDeletedBit(hmap.hashes[i]) => slots[i] = "removed"

\* objects whose raw hashes are 0x80000000 and 0 have been inserted: one
\* is in the table and the other has been removed from it
C10_Witness ==
  \E i, j \in DOMAIN hmap.hashes :
    /\ slots[i] = "live"
    /\ slots[j] = "removed"
    /\ {hash_uint32(hmap_object_key(hmap.objects[i])),
        hash_uint32(hmap_object_key(hmap.objects[j]))}
         = {U32(0, 0), U32(1, 0)}

\* ----------------------------------------------------------------- C11
\* C11 as the specification words it: the hash that hmap_calc_hash stores
\* for an object of raw hash raw is (raw & 0x7FFFFFFF) | (raw == 0 ? 1 : 0).
C11_SanitizeAsWorded ==
  LET worded(raw) == IF raw = U32(0, 0) THEN U32(0, 1) ELSE U32(0, raw[2])
  IN \A i \in DOMAIN hmap.hashes :
       slots[i] = "live" =>
         hmap.hashes[i]
           = worded(hash_uint32(hmap_object_key(hmap.objects[i])))

\* C11 amended: for every raw hash, the sanitized hash is
\* (raw & 0x7FFFFFFF) | ((raw & 0x7FFFFFFF) == 0 ? 1 : 0): the test for zero
\* is made after the tombstone bit is cleared, so 0x80000000 gives 1.
C11_SanitizeLow31 ==
  LET low31(raw) == IF raw[2] = 0 THEN U32(0, 1) ELSE U32(0, raw[2])
  IN /\ \A raw \in RawHashes : hmap_calc_hash(raw) = low31(raw)
     /\ \A i \in DOMAIN hmap.hashes :
           slots[i] = "live" =>
             hmap.hashes[i]
               = low31(hash_uint32(hmap_object_key(hmap.objects[i])))

\* the objects of raw hashes 0x80000000 and 0 are both in the table
C11_Witness ==
  \E i, j \in DOMAIN hmap.hashes :
    /\ slots[i] = "live"
    /\ slots[j] = "live"
    /\ hash_uint32(hmap_object_key(hmap.objects[i])) = U32(1, 0)
    /\ hash_uint32(hmap_object_key(hmap.objects[j])) = U32(0, 0)

\* ----------------------------------------------------------------- C12
\* C12: hmap_insert places an object into a tombstone slot only when the
\* probe distance d of the object is strictly greater than the distance bd
\* of the tombstone's retained hash, and a tombstone met with d <= bd is
\* left untouched; with the trivial hash and size 8, after insert 1, 9, 17
\* and remove 9, insert 2 puts its object in slot 4 and leaves slot 2 a
\* tombstone.
C12_TombstoneSteal ==
  [][(InsertStep /\ ~aborted' /\ hmap'.size = hmap.size) =>
       /\ \A t \in Tombstones(hmap) :
             \/ /\ hmap'.hashes[t] = hmap.hashes[t]
                /\ hmap'.objects[t] = hmap.objects[t]
             \/ /\ t \in Live(hmap')
                /\ hmap_distance(hmap', t, hmap'.hashes[t])
                     > hmap_distance(hmap, t, hmap.hashes[t])
       /\ Cardinality(Tombstones(hmap) \ Tombstones(hmap')) <= 1
       /\ ( /\ okeys = RobinHoodKeys
            /\ members = {1, 3}
            /\ members' = {1, 3, 4}
            /\ hmap.objects[1] = 1
            /\ hmap.hashes[2] = U32(1, 9)
            /\ hmap.objects[3] = 3
            /\ Live(hmap) = {1, 3}
            /\ Tombstones(hmap) = {2} )
           => /\ hmap'.objects[4] = 4
              /\ hmap'.hashes[4] = U32(0, 2)
              /\ hmap'.hashes[2] = U32(1, 9)
              /\ hmap'.objects[1] = 1
              /\ hmap'.objects[3] = 3
     ]_vars

\* test_robin_hood_deleted: the object of key 2 is in slot 4 behind the
\* objects of keys 1 and 17 and the tombstone of key 9 in slot 2
C12_Witness ==
  /\ okeys = RobinHoodKeys
  /\ hmap.size = HMAP_INITIAL_SIZE
  /\ members = {1, 3, 4}
  /\ hmap.objects[1] = 1
  /\ hmap.hashes[2] = U32(1, 9)
  /\ hmap.objects[3] = 3
  /\ hmap.objects[4] = 4
  /\ Live(hmap) = {1, 3, 4}
  /\ Tombstones(hmap) = {2}
  /\ slots[2] = "removed"

\* ----------------------------------------------------------------- C13
\* C13: during hmap_insert the occupant of a live slot is displaced if and
\* only if the incoming pair's probe distance d is strictly greater than
\* the occupant's bd; the displaced pair keeps its stored hash and goes on
\* probing from bd + 1; on a tie the occupant keeps its slot.  With the
\* trivial hash and size 8, inserting 1, 2, 9 or 1, 9, 2 leaves obj1 in
\* slot 1, obj9 in slot 2 and obj2 in slot 3.
C13_Displacement ==
  [][(InsertStep /\ ~aborted' /\ hmap'.size = hmap.size) =>
       LET written == {i \in DOMAIN hmap.hashes :
                         \/ hmap'.hashes[i] # hmap.hashes[i]
                         \/ hmap'.objects[i] # hmap.objects[i]}
       IN /\ \A i \in written \cap Live(hmap) :
                /\ hmap_distance(hmap', i, hmap'.hashes[i])
                     > hmap_distance(hmap, i, hmap.hashes[i])
                /\ \E j \in written :
                      /\ hmap'.hashes[j] = hmap.hashes[i]
                      /\ hmap'.objects[j] = hmap.objects[i]
                      /\ hmap_distance(hmap', j, hmap'.hashes[j])
                           > hmap_distance(hmap, i, hmap.hashes[i])
          /\ \A i \in written :
                \A k \in 0..(hmap_distance(hmap', i, hmap'.hashes[i]) - 1) :
                  LET j == hmap_index(hmap', hmap'.hashes[i], k)
                  IN /\ hmap'.hashes[j] # HMAP_HASH_FREE
                     /\ hmap_distance(hmap', j, hmap'.hashes[j]) >= k
          /\ ( /\ okeys = RobinHoodKeys
               /\ members' = {1, 2, 4}
               /\ Live(hmap) = {1, 2}
               /\ Tombstones(hmap) = {}
               /\ hmap.objects[1] = 1
               /\ hmap.objects[2] \in {2, 4} )
              => /\ Live(hmap') = {1, 2, 3}
                 /\ hmap'.objects[1] = 1
                 /\ hmap'.objects[2] = 2
                 /\ hmap'.hashes[2] = U32(0, 9)
                 /\ hmap'.objects[3] = 4
                 /\ hmap'.hashes[3] = U32(0, 2)
     ]_vars

\* test_robin_hood: the object of key 9 is in slot 2 and the object of
\* key 2 behind it in slot 3
C13_Witness ==
  /\ okeys = RobinHoodKeys
  /\ hmap.size = HMAP_INITIAL_SIZE
  /\ members = {1, 2, 4}
  /\ Live(hmap) = {1, 2, 3}
  /\ Tombstones(hmap) = {}
  /\ hmap.objects[1] = 1
  /\ hmap.objects[2] = 2
  /\ hmap.objects[3] = 4

\* ------------------------------------------- what a flow table contains
\* the pool slots
Pool(t) == DOMAIN t.flow_entries

\* the slots in a live state, NEW or DELETE_MARKED
LiveEntries(t) ==
  {e \in Pool(t) : t.flow_entries[e].state
                     \in {FT_FLOW_STATE_NEW, FT_FLOW_STATE_DELETE_MARKED}}

\* entry e is found in all three indexes under its current id, priority
\* and match
Indexed(t, e) ==
  LET en == t.flow_entries[e]
  IN /\ e \in Range(hindex_lookup_all(t.flow_id_index, t.flow_entries,
                                       "id", en.id))
     /\ e \in Range(hindex_lookup_all(t.priority_index, t.flow_entries,
                                       "priority", en.priority))
     /\ e \in Range(hindex_lookup_all(t.match_index, t.flow_entries,
                                       "match", en.match))

\* the slots that a failed add has taken off the free list and left there
Leaked(t) == Pool(t) \ (Range(t.free_list) \cup Range(t.all_list))

\* ----------------------------------------------------------------- C14
\* C14: between flow table operations, status.current_count plus the
\* length of the free list equals config.max_entries, after any sequence
\* of create, add, delete, delete_id and mark_deleted calls, adds that
\* return an error included.
C14_CountPlusFree ==
  ft.status.current_count + Len(ft.free_list) = ft.config.max_entries

\* ----------------------------------------------------------------- C15
\* C15: when an add fails after a slot has been popped from the free list
\* (the duplicate, the match or the effects cannot be obtained), the slot
\* is back on the free list with state FREE when the error is returned:
\* a failed add consumes no pool capacity.
C15_FailedAddRestoresSlot ==
  [][ft'.status.adds = ft.status.adds =>
       \A e \in Range(ft.free_list) :
         /\ e \in Range(ft'.free_list)
         /\ ft'.flow_entries[e].state = FT_FLOW_STATE_FREE]_vars

\* ----------------------------------------------------------------- C16
\* C16: between flow table operations, a pool slot has state NEW or
\* DELETE_MARKED if and only if it is on the all-entries list and in the
\* id, priority and match indexes under its current id, priority and
\* match; it has state FREE if and only if it is on the free list; no slot
\* is on both lists or on neither.
C16_StateMatchesMembership ==
  \A e \in Pool(ft) :
    /\ e \in LiveEntries(ft) <=> (e \in Range(ft.all_list) /\ Indexed(ft, e))
    /\ ft.flow_entries[e].state = FT_FLOW_STATE_FREE
          <=> e \in Range(ft.free_list)
    /\ ~(e \in Range(ft.free_list) /\ e \in Range(ft.all_list))
    /\ e \in Range(ft.free_list) \/ e \in Range(ft.all_list)

\* ----------------------------------------------------------------- C17
\* C17: after a successful add(id, flow_add) the new entry is returned by
\* the id lookup of id and is among the entries enumerated from the match
\* index for its match and from the priority index for its priority, all
\* three give the entry reference stored in *entry_p, and adds and
\* current_count have each increased by exactly 1.
C17_AddReachable ==
  [][ft'.status.adds # ft.status.adds =>
       /\ \E id \in FlowIds, fa \in FlowAdds :
             ft' = ft_hash_flow_add(ft, id, fa, "none").ft
       /\ \A id \in FlowIds, fa \in FlowAdds :
             LET r == ft_hash_flow_add(ft, id, fa, "none")
             IN ft' = r.ft =>
                  /\ r.rv = INDIGO_ERROR_NONE
                  /\ r.entry \in Pool(ft)
                  /\ ft_id_lookup(ft', id) = r.entry
                  /\ r.entry \in Range(hindex_lookup_all(
                         ft'.match_index, ft'.flow_entries, "match", fa.match))
                  /\ r.entry \in Range(hindex_lookup_all(
                         ft'.priority_index, ft'.flow_entries, "priority",
                         fa.priority))
                  /\ ft'.flow_entries[r.entry].state = FT_FLOW_STATE_NEW
                  /\ ft'.status.adds = ft.status.adds + 1
                  /\ ft'.status.current_count = ft.status.current_count + 1
     ]_vars

\* two adds have succeeded: the table holds two entries of one priority
\* and different matches
C17_Witness ==
  /\ ft.status.adds = 2
  /\ Len(ft.all_list) = 2
  /\ ft.flow_entries[ft.all_list[1]].priority
       = ft.flow_entries[ft.all_list[2]].priority
  /\ ft.flow_entries[ft.all_list[1]].match
       # ft.flow_entries[ft.all_list[2]].match
  /\ \A e \in Range(ft.all_list) : Indexed(ft, e)

C19_IdUnique ==
  /\ \A e1, e2 \in LiveEntries(ft) :
        ft.flow_entries[e1].id = ft.flow_entries[e2].id => e1 = e2
  /\ \A id \in FlowIds :
        Len(hindex_lookup_all(ft.flow_id_index, ft.flow_entries, "id", id))
          <= 1

\* ----------------------------------------------------------------- C20
\* C20: between flow table operations, status.pending_deletes equals the
\* number of pool entries whose state is DELETE_MARKED.
C20_PendingDeletes ==
  ft.status.pending_deletes
    = Cardinality({e \in Pool(ft) :
                     FT_FLOW_STATE_IS_DELETED(ft.flow_entries[e].state)})

\* a marked entry has been deleted and another entry is marked
C20_Witness ==
  /\ ft.status.pending_deletes = 1
  /\ ft.status.deletes = 1
  /\ \E e \in Range(ft.free_list) : ft.flow_entries[e].removed_reason # 0

\* ----------------------------------------------------------------- C21
\* C21: the state of a pool slot changes only along FREE -> NEW (by an add
\* that succeeds for that slot), NEW -> DELETE_MARKED (mark_deleted),
\* DELETE_MARKED -> FREE and NEW -> FREE (delete); a DELETE_MARKED entry
\* never returns to NEW and a slot never becomes NEW through an add that
\* returns an error.
C21_Lifecycle ==
  [][\A e \in Pool(ft) :
       LET from == ft.flow_entries[e].state
           to == ft'.flow_entries[e].state
       IN from # to =>
            \/ /\ from = FT_FLOW_STATE_FREE
               /\ to = FT_FLOW_STATE_NEW
               /\ ft'.status.adds = ft.status.adds + 1
               /\ e \in Range(ft'.all_list)
            \/ /\ from = FT_FLOW_STATE_NEW
               /\ to = FT_FLOW_STATE_DELETE_MARKED
               /\ ft'.status.pending_deletes = ft.status.pending_deletes + 1
            \/ /\ from \in {FT_FLOW_STATE_NEW, FT_FLOW_STATE_DELETE_MARKED}
               /\ to = FT_FLOW_STATE_FREE
               /\ ft'.status.deletes = ft.status.deletes + 1
     ]_vars

\* ----------------------------------------------------------------- C22
\* C22: ft_hash_flow_add returns EXISTS whenever the id lookup finds an
\* entry, also on a full table (where it does not return RESOURCE), and
\* then changes nothing: pool, lists, indexes and every status counter,
\* table_full_errors included, are as before.
C22_ExistsBeforeFull ==
  \A id \in FlowIds, fa \in FlowAdds, fail \in SetupFailures :
    LET r == ft_hash_flow_add(ft, id, fa, fail)
    IN /\ ft_id_lookup(ft, id) # NULL =>
            /\ r.rv = INDIGO_ERROR_EXISTS
            /\ r.entry = NULL
       /\ r.rv = INDIGO_ERROR_EXISTS => r.ft = ft

\* the table is full and an add of an id that it holds returns EXISTS
C22_Witness ==
  /\ ft.free_list = <<>>
  /\ ft.status.current_count = ft.config.max_entries
  /\ \E id \in FlowIds, fa \in FlowAdds :
        /\ ft_id_lookup(ft, id) # NULL
        /\ ft_hash_flow_add(ft, id, fa, "none").rv = INDIGO_ERROR_EXISTS

\* ----------------------------------------------------------------- C23
\* C23: ft_hash_flow_add of an id that the id lookup does not find returns
\* RESOURCE, with no external call failing, if and only if the free list
\* is empty; with an empty free list table_full_errors grows by exactly 1
\* and the pool, both lists, the three indexes, adds and current_count
\* are as before.
C23_ResourceIffFull ==
  \A id \in FlowIds, fa \in FlowAdds :
    ft_id_lookup(ft, id) = NULL =>
      /\ ft_hash_flow_add(ft, id, fa, "none").rv = INDIGO_ERROR_RESOURCE
            <=> ft.free_list = <<>>
      /\ ft.free_list = <<>> =>
            \A fail \in SetupFailures :
              LET r == ft_hash_flow_add(ft, id, fa, fail)
              IN /\ r.rv = INDIGO_ERROR_RESOURCE
                 /\ r.entry = NULL
                 /\ r.ft = [ft EXCEPT !.status.table_full_errors = @ + 1]

\* an add has been refused for want of a free slot, and the free list is
\* empty with an id that the table does not hold
C23_Witness ==
  /\ ft.status.table_full_errors > 0
  /\ ft.free_list = <<>>
  /\ \E id \in FlowIds : ft_id_lookup(ft, id) = NULL

\* ----------------------------------------------------------------- C29
\* C29: ft_flow_mark_deleted on an entry that is DELETE_MARKED changes
\* nothing, so the first reason is retained; on a NEW entry it sets
\* DELETE_MARKED, records the reason and adds exactly 1 to pending_deletes,
\* and leaves the lists, the indexes, current_count and the other entries
\* as they are.
C29_MarkDeletedOnce ==
  \A e \in Held(ft), reason \in Reasons :
    LET r == ft_flow_mark_deleted(ft, e, reason)
        old == ft.flow_entries[e]
        new == r.flow_entries[e]
    IN /\ old.state = FT_FLOW_STATE_DELETE_MARKED => r = ft
       /\ old.state = FT_FLOW_STATE_NEW =>
            /\ new.state = FT_FLOW_STATE_DELETE_MARKED
            /\ new.removed_reason = reason
            /\ r.status.pending_deletes = ft.status.pending_deletes + 1
            /\ r.status.current_count = ft.status.current_count
            /\ r.all_list = ft.all_list
            /\ r.free_list = ft.free_list
            /\ r.flow_id_index = ft.flow_id_index
            /\ r.priority_index = ft.priority_index
            /\ r.match_index = ft.match_index
            /\ new.id = old.id
            /\ \A o \in Pool(ft) \ {e} : r.flow_entries[o] = ft.flow_entries[o]

\* an entry was marked with reason 1 and a second ft_flow_mark_deleted with
\* reason 2 leaves the table as it is; another entry is NEW
C29_Witness ==
  \E e \in Held(ft) :
    /\ ft.flow_entries[e].state = FT_FLOW_STATE_DELETE_MARKED
    /\ ft.flow_entries[e].removed_reason = 1
    /\ ft.status.pending_deletes = 1
    /\ ft_flow_mark_deleted(ft, e, 2) = ft
    /\ \E o \in Held(ft) : ft.flow_entries[o].state = FT_FLOW_STATE_NEW

\* ----------------------------------------------------------------- C30
\* C30: ft_hash_flow_delete_id(id) returns NOT_FOUND when no live (NEW or
\* DELETE_MARKED) entry has that id and then leaves the whole table as it
\* is; when a live entry has that id the call has exactly the effect and
\* the result of ft_hash_flow_delete on that entry.
C30_DeleteIdIsDelete ==
  \A id \in FlowIds :
    LET holders == {e \in LiveEntries(ft) : ft.flow_entries[e].id = id}
        r == ft_hash_flow_delete_id(ft, id)
    IN /\ holders = {} =>
            /\ r.rv = INDIGO_ERROR_NOT_FOUND
            /\ r.ft = ft
       /\ \A e \in holders : r = ft_hash_flow_delete(ft, e)

\* ----------------------------------------------------------------- C24
\* C24: for every query, whatever its mode and the source of its
\* candidates, the list of ft_flow_query holds exactly the live (NEW or
\* DELETE_MARKED) entries for which ft_flow_meta_match holds, each once,
\* and equals as a set the all-entries list filtered by the predicate.
C24_QuerySoundComplete ==
  \A q \in Queries :
    LET list == ft_flow_query(ft, q)
    IN /\ Range(list) =
            {e \in LiveEntries(ft) :
               ft_flow_meta_match(q, ft.flow_entries[e]) # 0}
       /\ \A i, j \in DOMAIN list : list[i] = list[j] => i = j
       /\ Range(list) =
            {e \in Range(ft.all_list) :
               ft_flow_meta_match(q, ft.flow_entries[e]) # 0}

\* ----------------------------------------------------------------- C25
\* C25: in every table state and for every query, ft_flow_first_match
\* returns NONE with an entry if and only if ft_flow_query returns a
\* non-empty list for the same query, and that entry is on the list;
\* otherwise it returns NOT_FOUND.
C25_FirstMatchAgreesWithQuery ==
  \A q \in Queries :
    LET first == ft_flow_first_match(ft, q)
        list == ft_flow_query(ft, q)
    IN /\ first.rv = INDIGO_ERROR_NONE <=> list # <<>>
       /\ first.rv = INDIGO_ERROR_NONE => first.entry \in Range(list)
       /\ first.rv # INDIGO_ERROR_NONE =>
            /\ first.rv = INDIGO_ERROR_NOT_FOUND
            /\ first.entry = NULL

\* a STRICT query whose match the index holds twice, once under a
\* DELETE_MARKED entry: the first match is the other entry; and a query
\* with a priority that finds nothing among the entries of that priority
C25_Witness ==
  /\ \E q \in Queries :
        /\ q.mode = OF_MATCH_STRICT
        /\ Len(QueryCandidates(ft, q)) = 2
        /\ Len(ft_flow_query(ft, q)) = 1
        /\ ft_flow_first_match(ft, q).entry = QueryCandidates(ft, q)[2]
  /\ \E q \in Queries :
        /\ q.mode = OF_MATCH_NON_STRICT
        /\ q.check_priority = 1
        /\ QueryCandidates(ft, q) # <<>>
        /\ ft_flow_first_match(ft, q).rv = INDIGO_ERROR_NOT_FOUND

\* ----------------------------------------------------------------- C26
\* C26: during one spawned iteration task the callback is invoked at most
\* once per pool slot and exactly once for every slot whose entry is NEW
\* and passes the query, if any, from the spawn to the end of the walk; the
\* null entry is handed over exactly once, as the last invocation, by the
\* tick that returns FINISHED, and by no earlier tick.
C26_CallbackOncePerSlot ==
  /\ \A i, j \in DOMAIN calls : calls[i][1] = calls[j][1] => i = j
  /\ \A p \in walk.steady :
        p[1] <= iter.idx => \E i \in DOMAIN calls : calls[i] = p
  /\ iter.status = "finished" =>
        /\ iter.rv = IND_SOC_TASK_FINISHED
        /\ iter.idx = ft.config.max_entries
        /\ calls # <<>>
        /\ calls[Len(calls)] = NullArg
        /\ walk.steady \subseteq Range(calls)
  /\ iter.status # "finished" =>
        /\ iter.rv # IND_SOC_TASK_FINISHED
        /\ NullArg \notin Range(calls)

\* a walk with a query has finished: it handed over the one entry that
\* passed from spawn to end, then the null entry, and skipped an entry that
\* is NEW and fails the query
C26_Witness ==
  /\ iter.status = "finished"
  /\ iter.use_query = 1
  /\ Cardinality(walk.steady) = 1
  /\ Len(calls) = 2
  /\ calls[1] \in walk.steady
  /\ \E e \in Pool(ft) :
        /\ ft.flow_entries[e].state = FT_FLOW_STATE_NEW
        /\ CallbackArg(ft, e) \notin Range(calls)

\* ----------------------------------------------------------------- C27
\* C27 as worded: a tick returns CONTINUE only when ind_soc_should_yield
\* answered true before the walk had reached idx = max_entries.
C27_ContinueOnlyBeforeEnd ==
  iter.rv = IND_SOC_TASK_CONTINUE => iter.idx < ft.config.max_entries

\* C27: a tick returns CONTINUE exactly when ind_soc_should_yield answers
\* true after a slot the tick has processed, the last slot included; it
\* then has visited no further slot and the following tick resumes at the
\* next unvisited slot, or makes only the null call if there is none; in
\* every other case the tick returns FINISHED.
C27_YieldContinues ==
  /\ iter.rv = IND_SOC_TASK_CONTINUE =>
        iter.status = "registered" /\ iter.idx > 0
  /\ iter.status = "registered" =>
        \A k \in YieldAfter :
          LET max == ft.config.max_entries
              r == ft_iter_task_callback(ft, iter, k)
              next == ft_iter_task_callback(ft, [iter EXCEPT !.idx = r.idx], 1)
          IN /\ r.rv = IND_SOC_TASK_CONTINUE <=> iter.idx + k <= max
             /\ r.rv = IND_SOC_TASK_CONTINUE =>
                   /\ r.idx = iter.idx + k
                   /\ \A i \in DOMAIN r.calls :
                         /\ r.calls[i][1] > iter.idx
                         /\ r.calls[i][1] <= r.idx
                   /\ IF r.idx = max
                      THEN /\ next.rv = IND_SOC_TASK_FINISHED
                           /\ next.calls = <<NullArg>>
                      ELSE /\ next.rv = IND_SOC_TASK_CONTINUE
                           /\ next.idx = r.idx + 1
                           /\ \A i \in DOMAIN next.calls :
                                 next.calls[i][1] = r.idx + 1
             /\ r.rv # IND_SOC_TASK_CONTINUE =>
                   /\ r.rv = IND_SOC_TASK_FINISHED
                   /\ r.idx = max
                   /\ r.calls[Len(r.calls)] = NullArg

\* a tick has returned CONTINUE after the last slot: idx = max_entries, an
\* entry has been handed over and the null call is still to come
C27_Witness ==
  /\ iter.status = "registered"
  /\ iter.rv = IND_SOC_TASK_CONTINUE
  /\ iter.idx = ft.config.max_entries
  /\ calls # <<>>
  /\ ft_iter_task_callback(ft, iter, 1).calls = <<NullArg>>

\* ----------------------------------------------------------------- C28
\* C28: the walk takes no snapshot. With adds, deletes and marks between
\* the ticks, an entry deleted or marked before its slot is visited is not
\* handed to the callback, an entry added into a slot at or after idx is
\* handed over when the walk has reached that slot (if it is still NEW and
\* passes the query), and an entry added into a slot before idx is not
\* handed over during this walk.
C28_NoSnapshot ==
  /\ \A i \in DOMAIN calls :
        /\ calls[i] \notin walk.gone
        /\ calls[i] \notin walk.behind
  /\ \A p \in walk.ahead :
        (p[1] <= iter.idx /\ p \in PassingNow(ft, iter)) =>
           p \in Range(calls)

\* a walk has finished that handed over an entry added ahead of idx after
\* the spawn and did not hand over an entry added behind idx
C28_Witness ==
  /\ iter.status = "finished"
  /\ walk.behind # {}
  /\ \E p \in walk.ahead : p \in Range(calls)
  /\ \A p \in walk.behind : p \in PassingNow(ft, iter)

\* ----------------------------------------------------------------- C31
\* C31 as worded: ft_hash_flow_delete on an entry whose id is INVALID trips
\* an assertion and returns no status code to the caller.
C31_DeleteInvalidAsserts ==
  \A e \in Pool(ft) :
    ft.flow_entries[e].id = INDIGO_FLOW_ID_INVALID =>
      ft_hash_flow_delete(ft, e).rv \notin IndigoErrors

\* C31: ft_hash_flow_delete on an entry whose id is INVALID, such as an
\* entry that was deleted before, returns the status code UNKNOWN to the
\* caller and leaves the table as it is; no assertion trips.
C31_DeleteInvalidReturnsUnknown ==
  \A e \in Pool(ft) :
    ft.flow_entries[e].id = INDIGO_FLOW_ID_INVALID =>
      LET r == ft_hash_flow_delete(ft, e)
      IN /\ r.rv = INDIGO_ERROR_UNKNOWN
         /\ r.ft = ft

\* an entry has been deleted and a second ft_hash_flow_delete of it returns
\* UNKNOWN, with another entry in the table
C31_Witness ==
  /\ ft.status.deletes > 0
  /\ ft.all_list # <<>>
  /\ \E e \in Pool(ft) :
        /\ ft.flow_entries[e].id = INDIGO_FLOW_ID_INVALID
        /\ e \in Range(ft.free_list)
        /\ ft_hash_flow_delete(ft, e).rv = INDIGO_ERROR_UNKNOWN

\* ----------------------------------------------------------------- C32
\* bit i of a cookie
CookieBit(x, i) == (x \div (2 ^ i)) % 2

\* C32: ft_flow_modify_cookie(entry, cookie, mask) sets entry.cookie to
\* (old_cookie & mask) | (cookie & mask), bit by bit: a bit of the result
\* is set exactly when the mask bit is set and the bit is set in the old
\* cookie or in the new one; no other field of the entry, no other entry,
\* list, index or counter changes, and the call returns NONE.
C32_ModifyCookie ==
  \A e \in Held(ft), c \in Cookies, m \in Cookies :
    LET r == ft_flow_modify_cookie(ft, e, c, m)
        old == ft.flow_entries[e].cookie
        new == r.ft.flow_entries[e].cookie
    IN /\ r.rv = INDIGO_ERROR_NONE
       /\ new \in Cookies
       /\ \A i \in {0, 1} :
             CookieBit(new, i) = 1 <=>
               /\ CookieBit(m, i) = 1
               /\ CookieBit(old, i) = 1 \/ CookieBit(c, i) = 1
       /\ r.ft = [ft EXCEPT !.flow_entries[e].cookie = new]

\* an entry of the table has lost every bit of its cookie to a modify with
\* a mask that leaves bits out, and another has got both bits
C32_Witness ==
  /\ \E e \in Held(ft) : ft.flow_entries[e].cookie = 0
  /\ \E e \in Held(ft) : ft.flow_entries[e].cookie = 3

\* ----------------------------------------------------------------- C33
\* C33: after any sequence of hmap_insert and hmap_remove calls with a load
\* factor below 1, also cycles of inserts and removes of objects with equal
\* hashes while count stays below the threshold, every hmap_insert places
\* its object within size probes: the assert(0) after the loop of
\* hmap_insert__ is not reached.
C33_InsertAlwaysPlaces ==
  /\ ~aborted
  /\ \A o \in IterObjs \ members : hmap_insert(hmap, o).ok

\* ----------------------------------------------------------------- C34
\* The slot a lookup of key is at when its probe distance is d.
LookupSlot(h, key, d) == hmap_index(h, hmap_calc_hash(key), d)

C35_ProbePathInvariant ==
  \A i \in Live(hmap) :
    LET hash == hmap.hashes[i]
        d == hmap_distance(hmap, i, hash)
        key == hmap_object_key(hmap.objects[i])
    IN /\ \A k \in 0..(d - 1) :
            LET j == hmap_index(hmap, hash, k)
            IN /\ hmap.hashes[j] # HMAP_HASH_FREE
               /\ hmap_distance(hmap, j, hmap.hashes[j]) >= k
       /\ hash = hmap_calc_hash(key)
       /\ \A k \in 0..d :
            LET r == LookupExit(hmap, key, hash, k)
            IN r.exit = "return" /\ r.distance <= d

\* the table has grown and, after a removal, a live slot at probe distance
\* two or more has a tombstone on its probe path
C35_Witness ==
  /\ hmap.size > HMAP_INITIAL_SIZE
  /\ \E i \in Live(hmap) :
       /\ hmap_distance(hmap, i, hmap.hashes[i]) >= 2
       /\ ProbePath(hmap, i) \cap Tombstones(hmap) # {}

\* ----------------------------------------------------------------- C36
\* C36: every tick of the iteration task either advances idx by at least
\* one slot or returns FINISHED, whatever ind_soc_should_yield answers; so,
\* with any adds, marks and deletes before and between the ticks, a task
\* that is still registered has been run at most idx <= max_entries times,
\* no task is run more than max_entries + 1 times, and a registered task
\* that the scheduler keeps calling returns FINISHED.
C36_FinishesWithinBound ==
  /\ [](/\ iter.status = "registered" =>
            \A k \in YieldAfter :
              LET r == ft_iter_task_callback(ft, iter, k)
              IN \/ r.rv = IND_SOC_TASK_FINISHED
                 \/ /\ r.rv = IND_SOC_TASK_CONTINUE
                    /\ r.idx >= iter.idx + 1
                    /\ r.idx <= ft.config.max_entries
        /\ walk.ticks <= ft.config.max_entries + 1
        /\ iter.status = "registered" =>
             /\ walk.ticks <= iter.idx
             /\ iter.idx <= ft.config.max_entries
        /\ iter.status = "finished" => iter.rv = IND_SOC_TASK_FINISHED)
  /\ (iter.status = "registered") ~> (iter.status = "finished")

\* a walk that yielded after every slot has returned FINISHED at its tick
\* number max_entries + 1, having handed over an entry of a table that was
\* added to
C36_Witness ==
  /\ iter.status = "finished"
  /\ walk.ticks = ft.config.max_entries + 1
  /\ ft.status.adds > 0
  /\ Len(calls) > 1

\* ----------------------------------------------------------------- C37
\* C37: after any sequence of adds, marks and deletes, for every query of
\* every mode, match, priority test and output port (the cookie and table
\* filters, which only narrow a result, left open), and so from the match
\* index, the priority index and the all-entries list,
\* ft_flow_first_match returns no entry and
\* ft_flow_query lists no entry whose state is DELETE_MARKED or FREE, and
\* a tick of the iteration task, which walks the pool, hands the callback
\* no such entry, whatever the slot it has reached and the slot at which
\* it yields.
C37_NoDeletedYielded ==
  /\ \A q \in {x \in Queries :
                x.cookie_mask = 0 /\ x.table_id = TABLE_ID_ANY} :
       LET first == ft_flow_first_match(ft, q)
           list == ft_flow_query(ft, q)
       IN /\ first.entry # NULL =>
               ft.flow_entries[first.entry].state = FT_FLOW_STATE_NEW
          /\ \A i \in DOMAIN list :
               ft.flow_entries[list[i]].state = FT_FLOW_STATE_NEW
  /\ iter.status = "registered" =>
       \A k \in YieldAfter :
         LET r == ft_iter_task_callback(ft, iter, k)
         IN \A i \in DOMAIN r.calls :
              \/ r.calls[i] = NullArg
              \/ ft.flow_entries[r.calls[i][1]].state = FT_FLOW_STATE_NEW

\* the table holds an entry marked deleted and an entry that is not, the
\* walk of a registered task has both before it, and the next tick hands
\* over one entry only; a query of mode COOKIE_ONLY lists one entry
C37_Witness ==
  /\ iter.status = "registered"
  /\ iter.idx = 0
  /\ \E d, n \in Held(ft) :
       /\ ft.flow_entries[d].state = FT_FLOW_STATE_DELETE_MARKED
       /\ ft.flow_entries[n].state = FT_FLOW_STATE_NEW
       /\ ft_iter_task_callback(ft, iter, MaxEntries + 1).calls
            = <<CallbackArg(ft, n), NullArg>>
       /\ \E q \in Queries :
            /\ q.mode = OF_MATCH_COOKIE_ONLY
            /\ ft_flow_query(ft, q) = <<n>>
            /\ ft_flow_meta_match(q, [ft.flow_entries[d] EXCEPT
                                        !.state = FT_FLOW_STATE_NEW]) # 0

\* ----------------------------------------------------------------- C38
\* C38: with any adds, successful or failed, marks and deletes before and
\* between the ticks, every non-null entry that a tick of the iteration
\* task hands to the callback is then an entry of the table: it is on the
\* all-entries list and ft_id_lookup of its id returns that entry.
C38_CallbackGetsTableEntries ==
  iter.status = "registered" =>
    \A k \in YieldAfter :
      LET r == ft_iter_task_callback(ft, iter, k)
      IN \A i \in DOMAIN r.calls :
           \/ r.calls[i] = NullArg
           \/ /\ r.calls[i][1] \in Held(ft)
              /\ ft_id_lookup(ft, r.calls[i][2]) = r.calls[i][1]

\* ----------------------------------------------------------------- C39
\* C39: from ft_flow_mark_deleted to ft_hash_flow_delete an entry in state
\* DELETE_MARKED stays an entry of the table: it is on the all-entries
\* list and counted in current_count, ft_id_lookup of its id returns it,
\* ft_hash_flow_add with that id returns EXISTS and changes nothing,
\* ft_hash_flow_delete_id of that id returns NONE and frees it; a query
\* that every entry passes does not list it and a walk spawned now does
\* not hand it to the callback.
C39_MarkedStaysIndexed ==
  \A e \in Pool(ft) :
    ft.flow_entries[e].state = FT_FLOW_STATE_DELETE_MARKED =>
      LET id == ft.flow_entries[e].id
          del == ft_hash_flow_delete_id(ft, id)
          all == [mode |-> OF_MATCH_COOKIE_ONLY, match |-> 1,
                  check_priority |-> 0, priority |-> 0, cookie |-> 1,
                  cookie_mask |-> 0, table_id |-> TABLE_ID_ANY,
                  out_port |-> OF_PORT_DEST_WILDCARD]
          task == ft_spawn_iter_task(NoQuery, "none").task
      IN /\ e \in Held(ft)
         /\ ft.status.current_count = Cardinality(Held(ft))
         /\ id \in FlowIds
         /\ ft_id_lookup(ft, id) = e
         /\ \A fa \in FlowAdds, fail \in SetupFailures :
              LET add == ft_hash_flow_add(ft, id, fa, fail)
              IN add.rv = INDIGO_ERROR_EXISTS /\ add.ft = ft
         /\ del.rv = INDIGO_ERROR_NONE
         /\ del.ft.flow_entries[e].state = FT_FLOW_STATE_FREE
         /\ del.ft.status.current_count = ft.status.current_count - 1
         /\ all \in Queries
         /\ e \notin Range(ft_flow_query(ft, all))
         /\ ft_flow_first_match(ft, all).entry # e
         /\ CallbackArg(ft, e) \notin
              Range(ft_iter_task_callback(ft, task, MaxEntries + 1).calls)

\* the table holds an entry that is marked deleted and an entry that is
\* not; ft_hash_flow_delete_id of the id of the marked one leaves the other
\* as the only entry of the table
C39_Witness ==
  \E e, n \in Held(ft) :
    /\ ft.flow_entries[e].state = FT_FLOW_STATE_DELETE_MARKED
    /\ ft.flow_entries[n].state = FT_FLOW_STATE_NEW
    /\ ft.status.pending_deletes = 1
    /\ ft.status.current_count = 2
    /\ ft_hash_flow_delete_id(ft, ft.flow_entries[e].id).ft.all_list = <<n>>
====
